---- MODULE Spec2Model ----
(***************************************************************************)
(* A model of the UTXO ledger of ok26/blockchain: transactions, blocks     *)
(* with proof of work, and Blockchain::add_block with its verification     *)
(* and commit steps (src/src/blockchain).                                  *)
(*                                                                         *)
(* SHA-256 is modelled as an ideal (collision-free) hash: a digest is the  *)
(* tagged tuple of what was hashed, so two digests are equal exactly when  *)
(* their inputs are.  ECDSA is modelled symbolically: a signature names    *)
(* the key that made it and the message it covers.  u64 amounts are words  *)
(* of ValueBits bits and the 64-bit prefix of a block hash is a word of    *)
(* PrefixBits bits.                                                        *)
(***************************************************************************)
EXTENDS Integers, Sequences, FiniteSets, TLC

VARIABLES
    blocks,           \* Blockchain.blocks: the committed blocks, genesis first
    utxo,             \* Blockchain.utxo: txid -> sequence of TxOutput
    result,           \* what the last call returned (or that it panicked)
    call,             \* the last call: its kind, its transactions, what each check saw of its block
    txids,            \* history: per committed block, the ids its transactions were inserted under
    overflow_checks,  \* the build profile: TRUE = arithmetic overflow panics (debug), FALSE = it wraps (release)
    mempool,          \* Node.current_transactions: the pending transactions, oldest first
    user_funds,       \* Node.user.funds: the user's list of Fund records
    probe,            \* the last call of a function that leaves the chain alone: its inputs and what it returned
    admitted,         \* history: the pending transactions add_transaction let in
    found_total,      \* generate_primes: the shared AtomicUsize counter
    channel,          \* generate_primes: the primes sent and not yet received, oldest first
    primes,           \* generate_primes: the vector the coordinator fills
    workers,          \* generate_primes: per spawned thread, where it is and what it last read of the counter
    coordinator       \* generate_primes: where the calling thread is, n, and how many recv() it has done

chainVars == <<blocks, utxo, txids, overflow_checks>>
nodeVars == <<mempool, user_funds, probe, admitted>>
rsaVars == <<found_total, channel, primes, workers, coordinator>>
vars == <<blocks, utxo, result, call, txids, overflow_checks, mempool, user_funds, probe,
          admitted, found_total, channel, primes, workers, coordinator>>

\* No generate_primes call is running
NoPrimeSearch ==
    /\ found_total = 0
    /\ channel = <<>>
    /\ primes = <<>>
    /\ workers = <<>>
    /\ coordinator = [pc |-> "idle", n |-> 0, received |-> 0]

(***************************************************************************)
(* Program constants and the bounds of the model.                          *)
(***************************************************************************)
MINING_REWARD == 50
DEFAULT_DIFFICULTY == 5

MaxBlocks == 3        \* blocks committed in one behaviour
MaxCrafted == 1       \* chain length up to which hand-made blocks are submitted
MaxTxs == 2           \* non-coinbase transactions in a candidate block
NSalts == 2           \* distinct values the 32 random coinbase bytes can take
ValueBits == 8        \* width of the words that stand for u64 amounts
PrefixBits == 6       \* width of the word that stands for the leading 8 bytes of a digest

Keys == {"K1", "K2"}
Salts == 1..NSalts
ValueMod == 2 ^ ValueBits
PrefixMod == 2 ^ PrefixBits

Other(k) == IF k = "K1" THEN "K2" ELSE "K1"

RECURSIVE SumSeq(_)
SumSeq(s) == IF s = <<>> THEN 0 ELSE s[1] + SumSeq(Tail(s))

(***************************************************************************)
(* Sha256 and ECDSA                                                        *)
(***************************************************************************)
\* Sha256::hash(&[])
EmptyHash == <<"sha256", "">>

\* ecdsa::sign with the private key of `key`; AffinePoint::infinity() is the
\* placeholder User::get_input puts in an input before it is signed.
Sign(msg, key) == [signer |-> key, msg |-> msg]
NoSignature == [signer |-> "none", msg |-> EmptyHash]

\* ecdsa::verify(signature, message, public_key)
Verify(sig, msg, key) == sig.signer = key /\ sig.msg = msg

(***************************************************************************)
(* Transactions (src/src/blockchain/transaction.rs)                        *)
(***************************************************************************)
TxOutput(v, k) == [value |-> v, script_pubkey |-> k, spent |-> FALSE]
TxInput(id, vout, sig, k) == [txid |-> id, vout |-> vout, sig |-> sig, pubkey |-> k]

\* Transaction::get_coinbase(miner, value)
GetCoinbase(miner, value) == [inputs |-> <<>>, outputs |-> <<TxOutput(value, miner)>>]

\* Transaction::is_coinbase
IsCoinbase(tx) == tx.inputs = <<>>

\* What the serializations write of an output: value and script_pubkey.
SerOutputs(tx) ==
    [i \in 1..Len(tx.outputs) |-> <<tx.outputs[i].value, tx.outputs[i].script_pubkey>>]

\* Transaction::get_input_hash(idx, utxo_key): the digest of serialize_for_input.
\* idx is 1-based here.
GetInputHash(tx, idx, utxo_key) ==
    <<"sighash", Len(tx.inputs),
      [j \in 1..Len(tx.inputs) |-> <<tx.inputs[j].txid, tx.inputs[j].vout>>],
      idx, utxo_key, SerOutputs(tx)>>

\* Transaction::hash(): for a coinbase the digest also covers 32 bytes drawn
\* from the entropy source at each call; `salt` is what this call drew.
TxHash(tx, salt) ==
    <<"tx",
      [j \in 1..Len(tx.inputs) |->
          <<tx.inputs[j].txid, tx.inputs[j].vout, tx.inputs[j].sig, tx.inputs[j].pubkey>>],
      IF IsCoinbase(tx) THEN salt ELSE 0,
      SerOutputs(tx)>>

\* The salts one pass over a transaction list draws: one per coinbase in it.
CoinbaseIdx(txs) == {i \in 1..Len(txs) : IsCoinbase(txs[i])}
SaltChoices(txs) == [CoinbaseIdx(txs) -> Salts]
SaltAt(salts, i) == IF i \in DOMAIN salts THEN salts[i] ELSE 0
TxHashes(txs, salts) == [i \in 1..Len(txs) |-> TxHash(txs[i], SaltAt(salts, i))]

(***************************************************************************)
(* Merkle tree (src/src/blockchain/merkle.rs): only the root is needed     *)
(* here.                                                                   *)
(***************************************************************************)
RECURSIVE ParseHashes(_)
ParseHashes(hashes) ==
    IF Len(hashes) = 1 THEN hashes[1]
    ELSE LET hs == IF Len(hashes) % 2 = 1
                   THEN Append(hashes, hashes[Len(hashes)]) ELSE hashes
             mid == Len(hs) \div 2
         IN  <<"node", ParseHashes(SubSeq(hs, 1, mid)),
                       ParseHashes(SubSeq(hs, mid + 1, Len(hs)))>>

\* MerkleTree::new(transactions).root_hash(), the transaction hashes being
\* those this call computed.  The list is never empty: new() reads hashes[0].
MerkleRoot(hashes) ==
    ParseHashes(IF Len(hashes) = 1 THEN <<hashes[1], hashes[1]>> ELSE hashes)

MerkleTreeNew(txs, salts) ==
    [root |-> MerkleRoot(TxHashes(txs, salts)), transactions |-> txs]

\* A node's hash is the digest of its children's hashes, so the hash term of
\* an inner node carries both children; a leaf holds a transaction hash.
\* MerkleNode::is_leaf_node
IsLeafNode(node) == node[1] # "node"

\* MerkleTree::recursive_find_transaction: the pairs pushed on `branch`, in
\* the order they are pushed (from the root down); tx_idx is 0-based.
RECURSIVE RecursiveFindTransaction(_, _, _)
RecursiveFindTransaction(node, tx_cnt, tx_idx) ==
    IF IsLeafNode(node) THEN <<>>
    ELSE LET cnt == (tx_cnt + 1) \div 2 IN
         IF tx_idx >= cnt
         THEN <<<<node[2], 0>>>> \o RecursiveFindTransaction(node[3], cnt, tx_idx % cnt)
         ELSE <<<<node[3], 1>>>> \o RecursiveFindTransaction(node[2], cnt, tx_idx)

Reverse(s) == [i \in 1..Len(s) |-> s[Len(s) + 1 - i]]

\* MerkleTree::get_branch_hashes(transaction): None when no stored
\* transaction equals it, otherwise the branch of the first that does.
GetBranchHashes(tree, transaction) ==
    LET at == {i \in 1..Len(tree.transactions) : tree.transactions[i] = transaction} IN
    IF at = {} THEN [some |-> FALSE, branch |-> <<>>]
    ELSE LET transaction_idx == (CHOOSE i \in at : \A j \in at : i <= j) - 1 IN
         [some |-> TRUE,
          branch |-> Reverse(RecursiveFindTransaction(tree.root,
                                 Len(tree.transactions), transaction_idx))]

\* The loop of verify_transaction_branch from the i-th pair on
RECURSIVE ClimbBranch(_, _, _)
ClimbBranch(node_hash, branch, i) ==
    IF i > Len(branch) THEN node_hash
    ELSE ClimbBranch(IF branch[i][2] = 0
                     THEN <<"node", branch[i][1], node_hash>>
                     ELSE <<"node", node_hash, branch[i][1]>>,
                     branch, i + 1)

\* MerkleTree::verify_transaction_branch(tx, branch, root_hash); `salt` is
\* what its call of tx.hash() drew.
VerifyTransactionBranch(tx, branch, root_hash, salt) ==
    ClimbBranch(TxHash(tx, salt), branch, 1) = root_hash

(***************************************************************************)
(* Blocks and proof of work (src/src/blockchain/block.rs,                  *)
(* src/src/sha256/mod.rs)                                                  *)
(***************************************************************************)
\* The leading 8 bytes of a digest read as a big-endian integer, scaled to
\* PrefixBits bits: a fixed function of what the digest covers, which reads
\* the numbers in it and in the digests directly under it.  The nonce has an
\* odd multiplier, so a valid nonce always exists.
Scalars(h) ==
    CASE h[1] = "tx" -> 7 * h[3] + 3 * Len(h[2]) + 5 * Len(h[4])
      [] h[1] = "blk" -> 11 * h[4] + 7 * h[5] + 13 * h[6]
      [] h[1] = "node" -> Len(h[2]) + 2 * Len(h[3])
      [] OTHER -> 1

HashWord(h) ==
    CASE h[1] \in {"node", "blk"} ->
            (3 * Scalars(h[2]) + 5 * Scalars(h[3]) + Scalars(h)) % PrefixMod
      [] OTHER -> Scalars(h) % PrefixMod

\* Sha256::is_valid(difficulty): hash_value < 0xFFFFFFFFFFFFFFFF >> difficulty
IsValid(h, difficulty) == HashWord(h) < (PrefixMod - 1) \div (2 ^ difficulty)

\* A header hash that leaves the lowest bit of the nonce out
BlockHashHalfNonce(b) ==
    <<"blk", b.previous_block_hash, b.merkle_tree.root, b.timestamp, b.nonce \div 2,
      b.difficulty>>

\* Block::hash()
BlockHash(b) ==
    <<"blk", b.previous_block_hash, b.merkle_tree.root, b.timestamp, b.nonce, b.difficulty>>

\* Block::new(previous_block_hash, transactions) at time `now`; `salts` are
\* the draws of the transaction hashes MerkleTree::new computes.
BlockNew(previous_block_hash, txs, salts, now) ==
    [timestamp |-> now, hash |-> EmptyHash, previous_block_hash |-> previous_block_hash,
     nonce |-> 0, difficulty |-> DEFAULT_DIFFICULTY, merkle_tree |-> MerkleTreeNew(txs, salts)]

\* Block::mine(): the timestamp is refreshed and the hash recomputed; the
\* nonce goes up by one until the hash is valid under the block's difficulty.
\* The clock reads `now` throughout.
\* A miner that stores the hash of its first attempt, valid or not
MineFirstAttempt(b, now) ==
    LET c == [b EXCEPT !.timestamp = now] IN [c EXCEPT !.hash = BlockHash(c)]

RECURSIVE Mine(_, _)
Mine(b, now) ==
    LET c == [b EXCEPT !.timestamp = now]
        hash == BlockHash(c)
    IN  IF IsValid(hash, c.difficulty) THEN [c EXCEPT !.hash = hash]
        ELSE Mine([c EXCEPT !.nonce = c.nonce + 1], now)

(***************************************************************************)
(* Blockchain (src/src/blockchain/mod.rs).  A chain value is               *)
(* [blocks, utxo]; the operators below are the methods as functions of it. *)
(***************************************************************************)
\* Blockchain::create_block(coinbase, transactions)
CreateBlock(bc, coinbase, transactions, salts, now) ==
    BlockNew(IF bc.blocks = <<>> THEN EmptyHash
             ELSE BlockHash(bc.blocks[Len(bc.blocks)]),
             <<coinbase>> \o transactions, salts, now)

\* The additions of verify_new_transaction on u64: with overflow checks on
\* an overflowing sum panics, without them it wraps.
RECURSIVE SumInputs(_, _, _, _, _)
SumInputs(u, tx, i, total, checked) ==
    IF i > Len(tx.inputs) THEN [err |-> "None", total |-> total]
    ELSE LET input == tx.inputs[i] IN
         IF input.txid \notin DOMAIN u
         THEN [err |-> "InsufficientFunds", total |-> total]
         ELSE LET outs == u[input.txid] IN
              IF input.vout + 1 > Len(outs) \/ outs[input.vout + 1].spent
              THEN [err |-> "InsufficientFunds", total |-> total]
              ELSE LET ref == outs[input.vout + 1] IN
                   IF ref.script_pubkey # input.pubkey
                   THEN [err |-> "UnallowedTransaction", total |-> total]
                   ELSE IF ~Verify(input.sig, GetInputHash(tx, i, ref.script_pubkey),
                                   input.pubkey)
                   THEN [err |-> "InvalidSignature", total |-> total]
                   ELSE IF checked /\ total + ref.value >= ValueMod
                   THEN [err |-> "Panic", total |-> total]
                   ELSE SumInputs(u, tx, i + 1, (total + ref.value) % ValueMod, checked)

RECURSIVE SumOutputs(_, _, _, _)
SumOutputs(tx, i, total, checked) ==
    IF i > Len(tx.outputs) THEN [err |-> "None", total |-> total]
    ELSE IF checked /\ total + tx.outputs[i].value >= ValueMod
    THEN [err |-> "Panic", total |-> total]
    ELSE SumOutputs(tx, i + 1, (total + tx.outputs[i].value) % ValueMod, checked)

\* Blockchain::verify_new_transaction(tx): "Ok", a TransactionError, or "Panic"
VerifyNewTransaction(u, tx, checked) ==
    LET ins == SumInputs(u, tx, 1, 0, checked) IN
    IF ins.err # "None" THEN ins.err
    ELSE LET outs == SumOutputs(tx, 1, 0, checked) IN
         IF outs.err # "None" THEN outs.err
         ELSE IF IsCoinbase(tx) /\ outs.total = MINING_REWARD THEN "Ok"
         ELSE IF ins.total # outs.total THEN "MismatchedOutput"
         ELSE "Ok"

Result(kind) == [kind |-> kind, errors |-> <<>>]

\* The checks verify_new_block makes after the previous-hash check
VerifyBlockBody(bc, block, salts, checked, least, most) ==
    LET txs == block.merkle_tree.transactions
        res == [i \in 1..Len(txs) |-> VerifyNewTransaction(bc.utxo, txs[i], checked)]
        transaction_errors == SelectSeq(res, LAMBDA r : r # "Ok")
        coinbase_cnt == Cardinality(CoinbaseIdx(txs))
    IN  IF BlockHash(block) # block.hash \/ ~IsValid(block.hash, block.difficulty)
        THEN Result("InvalidHash")
        ELSE IF MerkleRoot(TxHashes(txs, salts)) # block.merkle_tree.root
        THEN Result("InvalidMerkleRoot")
        ELSE IF \E i \in 1..Len(txs) : res[i] = "Panic"
        THEN [kind |-> "Panic", errors |-> <<"overflow">>]
        ELSE IF coinbase_cnt < least \/ coinbase_cnt > most
        THEN Result("InvalidCoinbase")
        ELSE IF transaction_errors # <<>>
        THEN [kind |-> "InvalidTransactions", errors |-> transaction_errors]
        ELSE Result("Ok")

\* verify_new_block as it would be without the previous-hash check
VerifyNewBlockUnlinked(bc, block, salts, checked) ==
    VerifyBlockBody(bc, block, salts, checked, 1, 1)

\* verify_new_block as it would be if it only refused a second coinbase
VerifyNewBlockAtMostOne(bc, block, salts, checked) ==
    IF ~(bc.blocks = <<>>
         \/ block.previous_block_hash = bc.blocks[Len(bc.blocks)].hash)
    THEN Result("InvalidPreviousBlockHash")
    ELSE VerifyBlockBody(bc, block, salts, checked, 0, 1)

\* Blockchain::verify_new_block(block); `salts` are the draws of the
\* transaction hashes the rebuilt Merkle tree computes.
VerifyNewBlock(bc, block, salts, checked) ==
    LET txs == block.merkle_tree.transactions
        res == [i \in 1..Len(txs) |-> VerifyNewTransaction(bc.utxo, txs[i], checked)]
        transaction_errors == SelectSeq(res, LAMBDA r : r # "Ok")
        coinbase_cnt == Cardinality(CoinbaseIdx(txs))
    IN  IF ~(bc.blocks = <<>>
             \/ block.previous_block_hash = bc.blocks[Len(bc.blocks)].hash)
        THEN Result("InvalidPreviousBlockHash")
        ELSE IF BlockHash(block) # block.hash \/ ~IsValid(block.hash, block.difficulty)
        THEN Result("InvalidHash")
        ELSE IF MerkleRoot(TxHashes(txs, salts)) # block.merkle_tree.root
        THEN Result("InvalidMerkleRoot")
        ELSE IF \E i \in 1..Len(txs) : res[i] = "Panic"
        THEN [kind |-> "Panic", errors |-> <<"overflow">>]
        ELSE IF coinbase_cnt # 1
        THEN Result("InvalidCoinbase")
        ELSE IF transaction_errors # <<>>
        THEN [kind |-> "InvalidTransactions", errors |-> transaction_errors]
        ELSE Result("Ok")

\* HashMap::insert and HashMap::remove
Insert(u, k, v) == [x \in DOMAIN u \cup {k} |-> IF x = k THEN v ELSE u[x]]
Remove(u, k) == [x \in DOMAIN u \ {k} |-> u[x]]

\* The inner loop of add_block's commit: each input's entry is looked up and
\* unwrapped, its output marked spent, and the entry erased once all its
\* outputs are spent.  A missing entry (or index) panics where it stands.
RECURSIVE SpendInputs(_, _, _)
SpendInputs(u, inputs, i) ==
    IF i > Len(inputs) THEN [utxo |-> u, panicked |-> FALSE]
    ELSE LET input == inputs[i] IN
         IF input.txid \notin DOMAIN u \/ input.vout + 1 > Len(u[input.txid])
         THEN [utxo |-> u, panicked |-> TRUE]
         ELSE LET v == [u[input.txid] EXCEPT ![input.vout + 1].spent = TRUE]
                  u2 == IF \A k \in 1..Len(v) : v[k].spent
                        THEN Remove(u, input.txid)
                        ELSE [u EXCEPT ![input.txid] = v]
              IN  SpendInputs(u2, inputs, i + 1)

\* The commit loop of add_block; ids[i] is what transaction.hash() returned
\* for the i-th transaction.
RECURSIVE CommitTransactions(_, _, _, _)
CommitTransactions(u, txs, ids, i) ==
    IF i > Len(txs) THEN [utxo |-> u, panicked |-> FALSE]
    ELSE LET r == SpendInputs(Insert(u, ids[i], txs[i].outputs), txs[i].inputs, 1)
         IN  IF r.panicked THEN r ELSE CommitTransactions(r.utxo, txs, ids, i + 1)

\* add_block as it would be if it ran the commit loop before it looked at
\* the outcome of verification
AddBlockCommitFirst(bc, block, vsalts, csalts, checked) ==
    LET v == VerifyNewBlock(bc, block, vsalts, checked)
        txs == block.merkle_tree.transactions
        ids == TxHashes(txs, csalts)
        c == CommitTransactions(bc.utxo, txs, ids, 1)
    IN  IF c.panicked
        THEN [blocks |-> bc.blocks, utxo |-> c.utxo,
              result |-> [kind |-> "Panic", errors |-> <<"unwrap">>], ids |-> <<>>]
        ELSE IF v.kind # "Ok"
        THEN [blocks |-> bc.blocks, utxo |-> c.utxo, result |-> v, ids |-> <<>>]
        ELSE [blocks |-> Append(bc.blocks, block), utxo |-> c.utxo,
              result |-> Result("Ok"), ids |-> ids]

\* Blockchain::add_block(block): the chain after the call, what it returned,
\* and the ids it inserted under.  vsalts are the draws of verification,
\* csalts those of the commit loop.
AddBlock(bc, block, vsalts, csalts, checked) ==
    LET v == VerifyNewBlock(bc, block, vsalts, checked)
        txs == block.merkle_tree.transactions
        ids == TxHashes(txs, csalts)
        c == CommitTransactions(bc.utxo, txs, ids, 1)
    IN  IF v.kind # "Ok"
        THEN [blocks |-> bc.blocks, utxo |-> bc.utxo, result |-> v, ids |-> <<>>]
        ELSE IF c.panicked
        THEN [blocks |-> bc.blocks, utxo |-> c.utxo,
              result |-> [kind |-> "Panic", errors |-> <<"unwrap">>], ids |-> <<>>]
        ELSE [blocks |-> Append(bc.blocks, block), utxo |-> c.utxo,
              result |-> Result("Ok"), ids |-> ids]

\* Blockchain::verify_chain(): every block links to the stored hash of the
\* one before it, and its stored hash is the valid hash of its header.
VerifyChain(bc) ==
    IF \E i \in 2..Len(bc.blocks) :
          bc.blocks[i].previous_block_hash # bc.blocks[i - 1].hash
    THEN "InvalidPreviousBlockHash"
    ELSE IF \E i \in 1..Len(bc.blocks) :
               \/ BlockHash(bc.blocks[i]) # bc.blocks[i].hash
               \/ ~IsValid(bc.blocks[i].hash, bc.blocks[i].difficulty)
    THEN "InvalidHash"
    ELSE "Ok"

\* Blockchain::has_transaction(tx); `salt` is the draw of tx.hash()
HasTransaction(bc, tx, salt) ==
    LET id == TxHash(tx, salt) IN id \in DOMAIN bc.utxo /\ bc.utxo[id] = tx.outputs

\* Blockchain::get_user_funds(pubkey), as the set of triples it returns
GetUserFunds(bc, pubkey) ==
    {<<id, vout, bc.utxo[id][vout + 1].value>> :
        <<id, vout>> \in {r \in UNION {{<<i, v>> : v \in 0..(Len(bc.utxo[i]) - 1)} :
                                        i \in DOMAIN bc.utxo} :
                            bc.utxo[r[1]][r[2] + 1].script_pubkey = pubkey}}

\* Blockchain::set_output_spent(txid, vout, spent)
SetOutputSpent(u, txid, vout, spent) ==
    IF txid \in DOMAIN u /\ vout + 1 <= Len(u[txid])
    THEN [u EXCEPT ![txid][vout + 1].spent = spent]
    ELSE u

(***************************************************************************)
(* User (src/src/user/mod.rs): how transactions are built and signed.      *)
(* A fund is [txid, vout, value]; a receiver is <<key, value>>.            *)
(***************************************************************************)
\* User::get_input(fund)
GetInput(key, fund) == TxInput(fund.txid, fund.vout, NoSignature, key)

\* User::sign_transaction(transaction) with the private key of `signer`
SignTransaction(tx, signer) ==
    [tx EXCEPT !.inputs =
        [i \in 1..Len(tx.inputs) |->
            [tx.inputs[i] EXCEPT !.sig = Sign(GetInputHash(tx, i, signer), signer)]]]

\* User::try_transaction(recievers) of the user holding `key` and `funds`:
\* [ok, panicked, tx]; ok = FALSE is Err(InsufficientFunds).  total_output
\* and total_input are u64 sums: with overflow checks on an overflowing
\* addition panics, without them it wraps.
SumOverflows(values) ==
    \E i \in 1..Len(values) : SumSeq(SubSeq(values, 1, i)) >= ValueMod

RECURSIVE TakeFunds(_, _, _, _, _, _)
TakeFunds(key, funds, recievers, i, total_input, checked) ==
    LET total_output == SumSeq([j \in 1..Len(recievers) |-> recievers[j][2]]) % ValueMod
        none == [inputs |-> <<>>, outputs |-> <<>>]
    IN
    IF i > Len(funds) THEN [ok |-> FALSE, panicked |-> FALSE, tx |-> none]
    ELSE IF checked /\ total_input + funds[i].value >= ValueMod
    THEN [ok |-> FALSE, panicked |-> TRUE, tx |-> none]
    ELSE LET total == (total_input + funds[i].value) % ValueMod IN
         IF total >= total_output
         THEN LET change == total - total_output
                  outs == [j \in 1..Len(recievers) |->
                              TxOutput(recievers[j][2], recievers[j][1])]
              IN [ok |-> TRUE, panicked |-> FALSE,
                  tx |-> [inputs |-> [j \in 1..i |-> GetInput(key, funds[j])],
                          outputs |-> IF change # 0
                                      THEN Append(outs, TxOutput(change, key))
                                      ELSE outs]]
         ELSE TakeFunds(key, funds, recievers, i + 1, total, checked)

TryTransaction(key, funds, recievers, checked) ==
    LET r == TakeFunds(key, funds, recievers, 1, 0, checked) IN
    IF checked /\ SumOverflows([j \in 1..Len(recievers) |-> recievers[j][2]])
    THEN [ok |-> FALSE, panicked |-> TRUE, tx |-> [inputs |-> <<>>, outputs |-> <<>>]]
    ELSE IF r.ok THEN [r EXCEPT !.tx = SignTransaction(r.tx, key)] ELSE r

\* User::update_funds(tx) on the fund list fs of the user holding `key`;
\* `salt` is the draw of tx.hash().  One fund is pushed for the whole of what
\* tx pays the user, under the index of the last output that does; then the
\* funds an input of tx names are dropped.
UpdateFunds(fs, key, tx, salt, checked) ==
    LET paying == {i \in 1..Len(tx.outputs) : tx.outputs[i].script_pubkey = key}
        sum == SumSeq([i \in 1..Len(tx.outputs) |->
                          IF i \in paying THEN tx.outputs[i].value ELSE 0])
        value == sum % ValueMod
        vout == IF paying = {} THEN 0
                ELSE (CHOOSE i \in paying : \A j \in paying : j <= i) - 1
        pushed == IF value # 0
                  THEN Append(fs, [txid |-> TxHash(tx, salt), vout |-> vout, value |-> value])
                  ELSE fs
        consumed(f) == \E j \in 1..Len(tx.inputs) :
                          f.txid = tx.inputs[j].txid /\ f.vout = tx.inputs[j].vout
    IN  [panicked |-> checked /\ \E i \in paying :
                        SumSeq([j \in 1..i |-> IF j \in paying THEN tx.outputs[j].value
                                                ELSE 0]) >= ValueMod,
         funds |-> SelectSeq(pushed, LAMBDA f : ~consumed(f))]

\* User::get_funds(): the u64 sum of the fund values
GetFunds(fs) == SumSeq([i \in 1..Len(fs) |-> fs[i].value]) % ValueMod

(***************************************************************************)
(* Node (src/src/node/mod.rs).  A node value is [blocks, utxo, mempool];   *)
(* the operators below are the methods as functions of it.                 *)
(***************************************************************************)
\* for input in inputs: set_output_spent(input.txid, input.vout, spent)
RECURSIVE MarkInputs(_, _, _)
MarkInputs(u, inputs, spent) ==
    IF inputs = <<>> THEN u
    ELSE MarkInputs(SetOutputSpent(u, inputs[1].txid, inputs[1].vout, spent),
                    Tail(inputs), spent)

\* Node::add_transaction(transaction)
AddTransaction(n, transaction, checked) ==
    LET v == VerifyNewTransaction(n.utxo, transaction, checked) IN
    IF v # "Ok" THEN [node |-> n, result |-> Result(v)]
    ELSE [node |-> [n EXCEPT !.utxo = MarkInputs(n.utxo, transaction.inputs, TRUE),
                             !.mempool = Append(n.mempool, transaction)],
          result |-> Result("Ok")]

\* position(|tx| tx.hash() == *txid): the first pending transaction whose
\* hash, as drawn with `salt`, is txid; 0 when there is none
Position(mp, txid, salt) ==
    LET hits == {i \in 1..Len(mp) : TxHash(mp[i], salt) = txid} IN
    IF hits = {} THEN 0 ELSE CHOOSE i \in hits : \A j \in hits : i <= j

\* Node::remove_transaction(txid): ok = FALSE is Err(())
RemoveTransaction(n, txid, salt) ==
    LET pos == Position(n.mempool, txid, salt) IN
    IF pos = 0 THEN [node |-> n, ok |-> FALSE]
    ELSE [node |-> [n EXCEPT
                       !.mempool = SubSeq(n.mempool, 1, pos - 1)
                                   \o SubSeq(n.mempool, pos + 1, Len(n.mempool)),
                       !.utxo = MarkInputs(n.utxo, n.mempool[pos].inputs, FALSE)],
          ok |-> TRUE]

\* Node::clear_current_transactions(): remove_transaction of the hash of each
\* transaction of a copy of the mempool.  A hash computed for the argument
\* draws txsalt, one computed inside remove_transaction draws salt.
RECURSIVE ClearEach(_, _, _, _)
ClearEach(n, copy, txsalt, salt) ==
    IF copy = <<>> THEN n
    ELSE ClearEach(RemoveTransaction(n, TxHash(copy[1], txsalt), salt).node,
                   Tail(copy), txsalt, salt)

ClearCurrentTransactions(n, txsalt, salt) == ClearEach(n, n.mempool, txsalt, salt)

\* The loop of accept_block over the block's transactions: one that the
\* mempool is found to hold is removed, and the result of the removal
\* unwrapped.  anysalt is drawn by the hashes of the any() test.
RECURSIVE RemoveConfirmed(_, _, _, _, _)
RemoveConfirmed(n, txs, txsalt, anysalt, salt) ==
    IF txs = <<>> THEN [node |-> n, panicked |-> FALSE]
    ELSE IF Position(n.mempool, TxHash(txs[1], txsalt), anysalt) = 0
    THEN RemoveConfirmed(n, Tail(txs), txsalt, anysalt, salt)
    ELSE LET r == RemoveTransaction(n, TxHash(txs[1], txsalt), salt) IN
         IF ~r.ok THEN [node |-> n, panicked |-> TRUE]
         ELSE RemoveConfirmed(r.node, Tail(txs), txsalt, anysalt, salt)

\* Node::accept_block(block)
AcceptBlock(n, block, txsalt, anysalt, salt, vsalts, csalts, checked) ==
    LET transactions == block.merkle_tree.transactions
        removed == RemoveConfirmed(n, transactions, txsalt, anysalt, salt)
        res == AddBlock([blocks |-> removed.node.blocks, utxo |-> removed.node.utxo],
                        block, vsalts, csalts, checked)
    IN  IF removed.panicked
        THEN [node |-> removed.node, ids |-> <<>>,
              result |-> [kind |-> "Panic", errors |-> <<"unwrap">>]]
        ELSE IF res.result.kind = "Panic"
        THEN [node |-> [removed.node EXCEPT !.utxo = res.utxo], ids |-> <<>>,
              result |-> res.result]
        ELSE IF res.result.kind # "Ok"
        THEN [node |-> [removed.node EXCEPT
                           !.mempool = removed.node.mempool \o transactions],
              ids |-> <<>>, result |-> res.result]
        ELSE [node |-> [removed.node EXCEPT !.blocks = res.blocks, !.utxo = res.utxo],
              ids |-> res.ids, result |-> res.result]

\* A mine() that leaves the pending transactions out of its block
NodeMineBlockCoinbaseOnly(n, key, salts, txsalt, salt, vsalts, csalts, checked, now) ==
    LET coinbase == GetCoinbase(key, MINING_REWARD)
        chain == [blocks |-> n.blocks, utxo |-> n.utxo]
        block == Mine(CreateBlock(chain, coinbase, <<>>, salts, now), now)
        cleared == ClearCurrentTransactions(n, txsalt, salt)
        res == AddBlock([blocks |-> cleared.blocks, utxo |-> cleared.utxo],
                        block, vsalts, csalts, checked)
    IN  [block |-> block, coinbase |-> coinbase, ids |-> res.ids,
         node |-> [cleared EXCEPT !.blocks = res.blocks, !.utxo = res.utxo],
         result |-> IF res.result.kind = "Ok" THEN res.result
                    ELSE [kind |-> "Panic", errors |-> <<res.result.kind>>]]

\* Node::mine() of the node whose user holds `key`: the block it built, the
\* node afterwards and the outcome of the add_block it unwraps
NodeMineBlock(n, key, salts, txsalt, salt, vsalts, csalts, checked, now) ==
    LET coinbase == GetCoinbase(key, MINING_REWARD)
        chain == [blocks |-> n.blocks, utxo |-> n.utxo]
        block == Mine(CreateBlock(chain, coinbase, n.mempool, salts, now), now)
        cleared == ClearCurrentTransactions(n, txsalt, salt)
        res == AddBlock([blocks |-> cleared.blocks, utxo |-> cleared.utxo],
                        block, vsalts, csalts, checked)
    IN  [block |-> block, coinbase |-> coinbase, ids |-> res.ids,
         node |-> [cleared EXCEPT !.blocks = res.blocks, !.utxo = res.utxo],
         result |-> IF res.result.kind = "Ok" THEN res.result
                    ELSE [kind |-> "Panic", errors |-> <<res.result.kind>>]]

(***************************************************************************)
(* The environment: the transactions and blocks the chain is called with.  *)
(***************************************************************************)
SplitAmount == 30
WrongPrev == <<"sha256", "x">>

\* util::timestamp() when a block is built on the chain bc: the clock is
\* taken to go up by one second per committed block.
Now(bc) == Len(bc.blocks)

\* Every (txid, vout) the UTXO map holds, spent or not
Refs(u) == UNION {{<<id, v>> : v \in 0..(Len(u[id]) - 1)} : id \in DOMAIN u}
RefOut(u, r) == u[r[1]][r[2] + 1]
FundOf(u, r) == [txid |-> r[1], vout |-> r[2], value |-> RefOut(u, r).value]

\* The owner of an output pays all of it, or SplitAmount of it, to the other key
PayTxs(u) ==
    {TryTransaction(RefOut(u, r).script_pubkey, <<FundOf(u, r)>>,
                    <<<<Other(RefOut(u, r).script_pubkey), RefOut(u, r).value>>>>, TRUE).tx :
        r \in Refs(u)}

SplitTxs(u) ==
    {TryTransaction(RefOut(u, r).script_pubkey, <<FundOf(u, r)>>,
                    <<<<Other(RefOut(u, r).script_pubkey), SplitAmount>>>>, TRUE).tx :
        r \in {x \in Refs(u) : RefOut(u, x).value > SplitAmount}}

\* The owner of two outputs (or of one, listed twice) pays their sum
TwoFundTxs(u) ==
    {TryTransaction(RefOut(u, p[1]).script_pubkey, <<FundOf(u, p[1]), FundOf(u, p[2])>>,
                    <<<<Other(RefOut(u, p[1]).script_pubkey),
                        RefOut(u, p[1]).value + RefOut(u, p[2]).value>>>>, TRUE).tx :
        p \in {q \in Refs(u) \X Refs(u) :
                 /\ RefOut(u, q[1]).script_pubkey = RefOut(u, q[2]).script_pubkey
                 /\ RefOut(u, q[1]).value + RefOut(u, q[2]).value < ValueMod}}

\* A transaction spending r, signed by `signer` in the name of `declared`
SpendAs(u, r, declared, signer, outs) ==
    LET tx == [inputs |-> <<GetInput(declared, FundOf(u, r))>>, outputs |-> outs]
        signed == SignTransaction(tx, signer)
    IN  [signed EXCEPT !.inputs =
            [i \in 1..Len(tx.inputs) |-> [signed.inputs[i] EXCEPT !.pubkey = declared]]]

\* Transactions that are wrong in one way each
FaultyTxs(u) ==
    LET owner(r) == RefOut(u, r).script_pubkey
        val(r) == RefOut(u, r).value
        pay(r) == <<TxOutput(val(r), Other(owner(r)))>>
        half == ValueMod \div 2
    IN  \* outputs exceed the inputs
        {SpendAs(u, r, owner(r), owner(r),
                 <<TxOutput((val(r) + 20) % ValueMod, Other(owner(r)))>>) : r \in Refs(u)}
        \* signed by a key that does not own the output
        \cup {SpendAs(u, r, owner(r), Other(owner(r)), pay(r)) : r \in Refs(u)}
        \* spent in the name of a key that does not own the output
        \cup {SpendAs(u, r, Other(owner(r)), Other(owner(r)), pay(r)) : r \in Refs(u)}
        \* the first input duplicated after signing
        \cup {[t EXCEPT !.inputs = Append(t.inputs, t.inputs[1])] : t \in PayTxs(u)}
        \* outputs whose u64 sum wraps around to the input value
        \cup {SpendAs(u, r, owner(r), owner(r),
                      <<TxOutput(half + val(r) \div 2, Other(owner(r))),
                        TxOutput(half + val(r) - val(r) \div 2, Other(owner(r)))>>) :
                r \in {x \in Refs(u) : val(x) < half}}
        \* an output that is marked spent from the start
        \cup {SpendAs(u, r, owner(r), owner(r),
                      <<[TxOutput(val(r), Other(owner(r))) EXCEPT !.spent = TRUE]>>) :
                r \in Refs(u)}
        \* an input that refers to no transaction
        \cup {SpendAs([x \in {EmptyHash} |-> <<TxOutput(MINING_REWARD, "K1")>>],
                      <<EmptyHash, 0>>, "K1", "K1", <<TxOutput(MINING_REWARD, "K2")>>)}

ValidTxs(u) == PayTxs(u) \cup SplitTxs(u) \cup TwoFundTxs(u)

\* The non-coinbase transactions of the committed blocks, submitted again
ReplayTxs(bc) ==
    UNION {{bc.blocks[b].merkle_tree.transactions[i] :
               i \in {j \in 1..Len(bc.blocks[b].merkle_tree.transactions) :
                        ~IsCoinbase(bc.blocks[b].merkle_tree.transactions[j])}} :
           b \in 1..Len(bc.blocks)}

\* Lists of at most n plain payments
RECURSIVE PayLists(_, _)
PayLists(u, n) ==
    IF n = 0 THEN {<<>>}
    ELSE LET shorter == PayLists(u, n - 1) IN
         shorter \cup {Append(l, t) : l \in shorter, t \in PayTxs(u)}

\* Coinbases the code accepts, and coinbases the specification forbids
StandardCoinbases ==
    {GetCoinbase(k, MINING_REWARD) : k \in Keys}
    \cup {[inputs |-> <<>>, outputs |-> <<TxOutput(20, "K1"), TxOutput(MINING_REWARD - 20, "K2")>>]}

OddCoinbases ==
    {GetCoinbase("K1", 0), GetCoinbase("K1", 2 * MINING_REWARD),
     [inputs |-> <<>>, outputs |-> <<>>],
     [inputs |-> <<>>,
      outputs |-> <<TxOutput(ValueMod \div 2 + 20, "K1"),
                    TxOutput(ValueMod \div 2 + MINING_REWARD - 20, "K1")>>]}

\* What a miner puts in a block: its coinbase, and a payment or a
\* transaction seen before
PlainContents(bc) ==
    {<<GetCoinbase("K1", MINING_REWARD)>> \o l :
        l \in {<<>>} \cup {<<t>> : t \in PayTxs(bc.utxo) \cup ReplayTxs(bc)}}

\* Hand-made transaction lists: other coinbases, none or two of them, one
\* faulty transaction, several inputs, several transactions
CraftedContents(bc) ==
    LET cb == GetCoinbase("K1", MINING_REWARD)
        u == bc.utxo
    IN  ({<<c>> : c \in StandardCoinbases \cup OddCoinbases}
         \cup {<<cb, t>> : t \in FaultyTxs(u) \cup SplitTxs(u) \cup TwoFundTxs(u)}
         \cup {<<cb, t>> \o l : t \in ValidTxs(u), l \in PayLists(u, MaxTxs - 1)}
         \cup {<<cb, GetCoinbase("K2", MINING_REWARD)>>}
         \cup {<<t>> : t \in PayTxs(u) \cup FaultyTxs(u)})
        \ PlainContents(bc)

SimpleContents(u) ==
    {<<GetCoinbase("K1", MINING_REWARD)>>} \cup {<<t>> : t \in PayTxs(u)}

HeaderModes == {"wrongprev", "unmined", "nopow", "easy"}

\* A block with the transactions txs, built on the chain bc
BuildBlock(bc, txs, salts, mode) ==
    LET b == CreateBlock(bc, txs[1], Tail(txs), salts, Now(bc)) IN
    CASE mode = "mined" -> Mine(b, Now(bc))
      [] mode = "wrongprev" -> Mine([b EXCEPT !.previous_block_hash = WrongPrev], Now(bc))
      [] mode = "unmined" -> b
      [] mode = "nopow" ->
            LET n == CHOOSE n \in 0..PrefixMod :
                        ~IsValid(BlockHash([b EXCEPT !.nonce = n]), b.difficulty)
            IN  [b EXCEPT !.nonce = n, !.hash = BlockHash([b EXCEPT !.nonce = n])]
      [] mode = "easy" -> Mine([b EXCEPT !.difficulty = 0], Now(bc))

(***************************************************************************)
(* The state machine.  A call leaves its outcome in `result` and a summary *)
(* of its argument in `call`; Return hands control back to the caller.  A  *)
(* panic ends the behaviour.                                               *)
(***************************************************************************)
EmptyMap == [x \in {} |-> <<>>]
NoResult == Result("None")
NoCall == [op |-> "none", txs |-> <<>>, coinbases |-> 0, linked |-> TRUE, hash_ok |-> TRUE,
           root_ok |-> TRUE, is_coinbase |-> FALSE, out_total |-> 0, mined |-> FALSE,
           shape |-> "none", contested |-> FALSE, spendable |-> FALSE]
NoProbe == [op |-> "none"]

Chain == [blocks |-> blocks, utxo |-> utxo]

\* What the checks of verify_new_block see of a block, one by one
BlockCall(op, bc, block, vsalts) ==
    LET txs == block.merkle_tree.transactions IN
    [NoCall EXCEPT
        !.op = op,
        !.txs = txs,
        !.coinbases = Cardinality(CoinbaseIdx(txs)),
        !.linked = (bc.blocks = <<>>
                    \/ block.previous_block_hash = bc.blocks[Len(bc.blocks)].hash),
        !.hash_ok = (BlockHash(block) = block.hash /\ IsValid(block.hash, block.difficulty)),
        !.root_ok = (MerkleRoot(TxHashes(txs, vsalts)) = block.merkle_tree.root)]

Init ==
    /\ blocks = <<>>
    /\ utxo = EmptyMap
    /\ result = NoResult
    /\ call = NoCall
    /\ txids = <<>>
    /\ overflow_checks \in BOOLEAN
    /\ NoPrimeSearch
    /\ mempool = <<>>
    /\ user_funds = <<>>
    /\ probe = NoProbe
    /\ admitted = {}

\* The draws of the commit loop.  The entropy source is taken never to give
\* a coinbase the id of a transaction recorded before (a repeat of 256 random
\* bits); up to the names of the salts, which nothing else reads, each draw
\* is then the least salt whose id is new.
UsedIds == DOMAIN utxo \cup UNION {{txids[b][i] : i \in 1..Len(txids[b])} : b \in 1..Len(txids)}

RECURSIVE FreshSalts(_, _, _, _)
FreshSalts(txs, used, i, salts) ==
    IF i > Len(txs) THEN salts
    ELSE IF ~IsCoinbase(txs[i]) THEN FreshSalts(txs, used, i + 1, salts)
    ELSE LET s == CHOOSE s \in 1..(Cardinality(used) + 1) :
                     /\ TxHash(txs[i], s) \notin used
                     /\ \A t \in 1..(s - 1) : TxHash(txs[i], t) \in used
         IN  FreshSalts(txs, used \cup {TxHash(txs[i], s)}, i + 1,
                        [j \in DOMAIN salts \cup {i} |-> IF j = i THEN s ELSE salts[j]])

CommitSalts(txs) == FreshSalts(txs, UsedIds, 1, EmptyMap)

\* Blockchain::new(coinbase): the genesis block is created, mined and added,
\* and the result of add_block unwrapped.
BlockchainNew ==
    /\ blocks = <<>>
    /\ result.kind = "None"
    /\ \E coinbase \in StandardCoinbases \cup OddCoinbases :
       \E salts \in SaltChoices(<<coinbase>>), vsalts \in SaltChoices(<<coinbase>>) :
          LET block == Mine(CreateBlock(Chain, coinbase, <<>>, salts, Now(Chain)), Now(Chain))
              r == AddBlock(Chain, block, vsalts, CommitSalts(<<coinbase>>), overflow_checks)
          IN  /\ blocks' = r.blocks
              /\ utxo' = r.utxo
              /\ result' = IF r.result.kind = "Ok" THEN r.result
                           ELSE [kind |-> "Panic", errors |-> <<r.result.kind>>]
              /\ txids' = IF r.result.kind = "Ok" THEN Append(txids, r.ids) ELSE txids
              /\ call' = [BlockCall("new", Chain, block, vsalts) EXCEPT !.mined = TRUE]
    /\ UNCHANGED <<overflow_checks, rsaVars, nodeVars>>

\* Blockchain::add_block(block) on a constructed chain
AddBlockStep(block, vsalts, mined) ==
    \E r \in {AddBlock(Chain, block, vsalts, CommitSalts(block.merkle_tree.transactions),
                      overflow_checks)} :
        /\ blocks' = r.blocks
        /\ utxo' = r.utxo
        /\ result' = r.result
        /\ txids' = IF r.result.kind = "Ok" THEN Append(txids, r.ids) ELSE txids
        /\ call' = [BlockCall("add_block", Chain, block, vsalts) EXCEPT !.mined = mined]
        /\ UNCHANGED <<overflow_checks, rsaVars, nodeVars>>

\* add_block of a block a miner built with create_block and mined
AddMinedBlock ==
    /\ blocks # <<>>
    /\ Len(blocks) < MaxBlocks
    /\ result.kind = "None"
    /\ \E txs \in PlainContents(Chain) :
       \E salts \in SaltChoices(txs), vsalts \in SaltChoices(txs) :
          \E bb \in {BuildBlock(Chain, txs, salts, "mined")} : AddBlockStep(bb, vsalts, TRUE)

\* add_block of a mined block with a hand-made transaction list
AddCraftedBlock ==
    /\ blocks # <<>>
    /\ Len(blocks) <= MaxCrafted
    /\ result.kind = "None"
    /\ \E txs \in CraftedContents(Chain) :
       \E salts \in SaltChoices(txs), vsalts \in SaltChoices(txs) :
          \E bb \in {BuildBlock(Chain, txs, salts, "mined")} : AddBlockStep(bb, vsalts, TRUE)

\* add_block of a block whose header fields were set by hand
AddForgedBlock ==
    /\ blocks # <<>>
    /\ Len(blocks) < MaxBlocks
    /\ result.kind = "None"
    /\ \E txs \in SimpleContents(utxo), mode \in HeaderModes :
       \E salts \in SaltChoices(txs), vsalts \in SaltChoices(txs) :
          AddBlockStep(BuildBlock(Chain, txs, salts, mode), vsalts,
                       mode \in {"wrongprev", "easy"})

\* Blockchain::verify_new_transaction(tx) called on a coinbase
VerifyTransaction ==
    /\ blocks # <<>>
    /\ result.kind = "None"
    /\ \E tx \in StandardCoinbases \cup OddCoinbases :
          /\ result' = Result(VerifyNewTransaction(utxo, tx, overflow_checks))
          /\ call' = [NoCall EXCEPT
                         !.op = "verify_new_transaction",
                         !.txs = <<tx>>,
                         !.is_coinbase = IsCoinbase(tx),
                         !.out_total =
                            SumSeq([i \in 1..Len(tx.outputs) |-> tx.outputs[i].value])]
    /\ UNCHANGED <<blocks, utxo, txids, overflow_checks, rsaVars, nodeVars>>

\* Node::is_transaction_confirmed(tx), that is Blockchain::has_transaction(tx),
\* asked about a non-coinbase transaction of a committed block
IsTransactionConfirmed ==
    /\ blocks # <<>>
    /\ result.kind = "None"
    /\ \E tx \in ReplayTxs(Chain), salt \in Salts :
          /\ probe' = [op |-> "is_transaction_confirmed", tx |-> tx,
                       returned |-> HasTransaction(Chain, tx, salt)]
          /\ result' = Result("Ok")
          /\ call' = [NoCall EXCEPT !.op = "is_transaction_confirmed", !.txs = <<tx>>]
    /\ UNCHANGED <<chainVars, rsaVars, mempool, user_funds, admitted>>

\* The caller takes the result; the chain is ready for the next call
Return ==
    /\ result.kind \notin {"None", "Panic"}
    /\ result' = NoResult
    /\ call' = NoCall
    /\ probe' = NoProbe
    /\ UNCHANGED <<blocks, utxo, txids, overflow_checks, rsaVars, mempool, user_funds, admitted>>

Next ==
    \/ BlockchainNew
    \/ AddMinedBlock
    \/ AddCraftedBlock
    \/ AddForgedBlock
    \/ VerifyTransaction
    \/ IsTransactionConfirmed
    \/ Return

Spec == Init /\ [][Next]_vars

(***************************************************************************)
(* A chain whose blocks are written to from outside                        *)
(* (src/src/node/mod.rs, test_invalid_chain).                              *)
(***************************************************************************)
\* blocks[i].nonce += 1 on a block of an intact chain, then verify_chain()
TamperNonceAndVerify ==
    /\ blocks # <<>>
    /\ result.kind = "None"
    /\ VerifyChain(Chain) = "Ok"
    /\ \E i \in 1..Len(blocks) :
          /\ blocks' = [blocks EXCEPT ![i].nonce = @ + 1]
          /\ result' = Result(VerifyChain([blocks |-> blocks', utxo |-> utxo]))
          /\ call' = [NoCall EXCEPT !.op = "verify_chain"]
          /\ probe' = [op |-> "tamper_nonce", block |-> i]
    /\ UNCHANGED <<utxo, txids, overflow_checks, rsaVars, mempool, user_funds, admitted>>

TamperNext ==
    \/ BlockchainNew
    \/ AddMinedBlock
    \/ TamperNonceAndVerify
    \/ Return

TamperSpec == Init /\ [][TamperNext]_vars

(***************************************************************************)
(* A node: the chain it was constructed with, its mempool and its user     *)
(* (src/src/node/mod.rs).  Node::new leaves the mempool and the user's     *)
(* funds empty, as Init does.  The user of the node holds NodeKey.         *)
(***************************************************************************)
MaxPending == 2       \* transactions the mempool holds
MaxNodeBlocks == 2    \* blocks a node's chain grows to

NodeKey == "K1"

Node == [blocks |-> blocks, utxo |-> utxo, mempool |-> mempool]

\* What the node was like when the call was made
Before(op) == [op |-> op, blocks |-> blocks, utxo |-> utxo, mempool |-> mempool]

\* The genesis coinbase pays the node's user all of the reward or part of it
GenesisCoinbases ==
    {c \in StandardCoinbases : \E i \in 1..Len(c.outputs) : c.outputs[i].script_pubkey = NodeKey}

\* Node::new(name, history, keys) on the chain a successful
\* Blockchain::new(coinbase) made
NodeInit ==
    /\ overflow_checks \in BOOLEAN
    /\ NoPrimeSearch
    /\ \E coinbase \in GenesisCoinbases :
          LET empty == [blocks |-> <<>>, utxo |-> EmptyMap]
              salts == [i \in {1} |-> 1]
              r == AddBlock(empty, Mine(CreateBlock(empty, coinbase, <<>>, salts, 0), 0),
                            salts, salts, overflow_checks)
          IN  /\ blocks = r.blocks
              /\ utxo = r.utxo
              /\ txids = <<r.ids>>
    /\ result = NoResult
    /\ call = NoCall
    /\ mempool = <<>>
    /\ user_funds = <<>>
    /\ probe = NoProbe
    /\ admitted = {}

\* Transactions handed to add_transaction, each with the shape it has:
\* payments out of the outputs the node knows, pending or not, as signed
\* ("valid") and as changed after signing (the first input listed twice, an
\* input pointed at the next output, an output's value raised, an output's
\* spent flag set), and a coinbase.  `signed` is the payment as it was signed.
Submission(shape, tx, signed) == [shape |-> shape, tx |-> tx, signed |-> signed]

Submissions(u) ==
    {Submission("valid", t, t) : t \in ValidTxs(u)}
    \cup {Submission("input_duplicated",
                     [t EXCEPT !.inputs = Append(t.inputs, t.inputs[1])], t) : t \in PayTxs(u)}
    \cup {Submission("input_retargeted", [t EXCEPT !.inputs[1].vout = @ + 1], t) :
            t \in PayTxs(u)}
    \cup {Submission("output_changed",
                     [t EXCEPT !.outputs[1].value = (@ + 1) % ValueMod], t) : t \in PayTxs(u)}
    \cup {Submission("output_marked_spent", [t EXCEPT !.outputs[1].spent = TRUE], t) :
            t \in PayTxs(u)}
    \cup {Submission("coinbase", GetCoinbase(Other(NodeKey), MINING_REWARD),
                     GetCoinbase(Other(NodeKey), MINING_REWARD))}

\* The outputs the inputs of a transaction name
InputRefs(tx) == {<<tx.inputs[j].txid, tx.inputs[j].vout>> : j \in 1..Len(tx.inputs)}

\* The transactions add_transaction let in that are in the mempool
AdmittedPending == {t \in admitted : \E i \in 1..Len(mempool) : mempool[i] = t}

\* Only whether two draws coincide is ever read.  The hashes a block is
\* built with, and a hash a caller computes, draw FirstSalt; the draws of
\* the hashes compared with them are free where a coinbase is hashed.
FirstSalt == 1
FirstSalts(txs) == [i \in CoinbaseIdx(txs) |-> FirstSalt]
LaterSalts(txs) == IF CoinbaseIdx(txs) = {} THEN {FirstSalt} ELSE Salts

\* Node::add_transaction(transaction)
NodeAddTransaction ==
    /\ blocks # <<>>
    /\ result.kind = "None"
    /\ Len(blocks) < MaxNodeBlocks
    /\ \E s \in Submissions(utxo) :
          LET r == AddTransaction(Node, s.tx, overflow_checks) IN
          /\ Len(r.node.mempool) <= MaxPending
          /\ utxo' = r.node.utxo
          /\ mempool' = r.node.mempool
          /\ result' = r.result
          /\ admitted' = IF r.result.kind = "Ok" THEN admitted \cup {s.tx} ELSE admitted
          /\ call' = [NoCall EXCEPT
                         !.op = "add_transaction",
                         !.shape = s.shape,
                         !.contested = \E t \in AdmittedPending :
                                          InputRefs(t) \cap InputRefs(s.tx) # {},
                         !.spendable =
                            (VerifyNewTransaction(utxo, s.signed, overflow_checks) = "Ok")]
    /\ probe' = Before("add_transaction")
    /\ UNCHANGED <<blocks, txids, overflow_checks, rsaVars, user_funds>>

\* Node::remove_transaction(txid), txid being the hash of a pending
\* transaction or of one that is not pending
NodeRemoveTransaction ==
    /\ blocks # <<>>
    /\ result.kind = "None"
    /\ Len(blocks) < MaxNodeBlocks
    /\ \E tx \in {mempool[i] : i \in 1..Len(mempool)}
                 \cup {GetCoinbase(NodeKey, MINING_REWARD)} :
       \E salt \in LaterSalts(mempool) :
          LET r == RemoveTransaction(Node, TxHash(tx, FirstSalt), salt) IN
          /\ utxo' = r.node.utxo
          /\ mempool' = r.node.mempool
          /\ result' = Result(IF r.ok THEN "Ok" ELSE "Err")
          /\ admitted' = IF r.ok THEN admitted \ {tx} ELSE admitted
          /\ call' = [NoCall EXCEPT !.op = "remove_transaction"]
    /\ probe' = Before("remove_transaction")
    /\ UNCHANGED <<blocks, txids, overflow_checks, rsaVars, user_funds>>

\* The draw of the tx.hash() of update_funds: like the draws of the commit
\* loop, it is taken not to repeat an id recorded before.
FundSalt(coinbase, ids) ==
    FreshSalts(<<coinbase>>, UsedIds \cup {ids[i] : i \in 1..Len(ids)}, 1, EmptyMap)[1]

\* Node::mine(): the block is built from the mempool and mined, the mempool
\* cleared, the result of add_block unwrapped and the user's funds updated
\* with the coinbase
NodeMine ==
    /\ blocks # <<>>
    /\ result.kind = "None"
    /\ Len(blocks) < MaxNodeBlocks
    /\ \E vsalts \in SaltChoices(<<GetCoinbase(NodeKey, MINING_REWARD)>> \o mempool),
          salt \in LaterSalts(mempool) :
       \E m \in {NodeMineBlock(Node, NodeKey,
                                FirstSalts(<<GetCoinbase(NodeKey, MINING_REWARD)>> \o mempool),
                                FirstSalt, salt, vsalts,
                                CommitSalts(<<GetCoinbase(NodeKey, MINING_REWARD)>>
                                            \o mempool),
                                overflow_checks, Now(Chain))} :
              /\ blocks' = m.node.blocks
              /\ utxo' = m.node.utxo
              /\ mempool' = m.node.mempool
              /\ result' = m.result
              /\ txids' = IF m.result.kind = "Ok" THEN Append(txids, m.ids) ELSE txids
              /\ user_funds' = IF m.result.kind = "Ok"
                               THEN UpdateFunds(user_funds, NodeKey, m.coinbase,
                                                FundSalt(m.coinbase, m.ids),
                                                overflow_checks).funds
                               ELSE user_funds
              /\ call' = [BlockCall("mine", Chain, m.block, vsalts) EXCEPT !.mined = TRUE]
              /\ probe' = Before("mine") @@ [block |-> m.block]
    /\ admitted' = {}
    /\ UNCHANGED <<overflow_checks, rsaVars>>

\* Blocks a peer sends: its coinbase alone or with a payment or a pending
\* transaction, and a pending payment without a coinbase
PeerContents ==
    LET cb == GetCoinbase(Other(NodeKey), MINING_REWARD)
        pending == {mempool[i] : i \in 1..Len(mempool)}
    IN  {<<cb>>} \cup {<<cb, t>> : t \in PayTxs(utxo) \cup pending}
        \cup {<<t>> : t \in {p \in pending : ~IsCoinbase(p)}}

\* Node::accept_block(block); the mempool holds at most `limit` entries
\* afterwards
AcceptBlockStep(limit) ==
    /\ blocks # <<>>
    /\ result.kind = "None"
    /\ Len(blocks) < MaxNodeBlocks
    /\ \E txs \in PeerContents, mode \in {"mined", "wrongprev"} :
       \E block \in {BuildBlock(Chain, txs, FirstSalts(txs), mode)} :
       \E vsalts \in SaltChoices(txs), anysalt \in LaterSalts(mempool),
          salt \in LaterSalts(mempool) :
       \E r \in {AcceptBlock(Node, block, FirstSalt, anysalt, salt, vsalts,
                             CommitSalts(txs), overflow_checks)} :
              /\ Len(r.node.mempool) <= limit
              /\ blocks' = r.node.blocks
              /\ utxo' = r.node.utxo
              /\ mempool' = r.node.mempool
              /\ result' = r.result
              /\ txids' = IF r.result.kind = "Ok" THEN Append(txids, r.ids) ELSE txids
              /\ call' = BlockCall("accept_block", Chain, block, vsalts)
    /\ probe' = Before("accept_block")
    /\ UNCHANGED <<overflow_checks, rsaVars, user_funds, admitted>>

NodeAcceptBlock == AcceptBlockStep(MaxPending)

NodeNext ==
    \/ NodeAddTransaction
    \/ NodeRemoveTransaction
    \/ NodeMine
    \/ NodeAcceptBlock
    \/ Return

NodeSpec == NodeInit /\ [][NodeNext]_vars

\* A node that takes transactions and blocks from its peers: a block that is
\* rejected leaves all its transactions in the mempool
PeerBlockSize == 2    \* transactions of a block a peer sends

NodeAcceptPeerBlock == AcceptBlockStep(MaxPending + PeerBlockSize)

PeerNext ==
    \/ NodeAddTransaction
    \/ NodeAcceptPeerBlock
    \/ Return

PeerSpec == NodeInit /\ [][PeerNext]_vars

(***************************************************************************)
(* A user on its own (src/src/user/mod.rs): try_transaction and            *)
(* update_funds on fund lists drawn from a bounded set.  The user holds    *)
(* NodeKey.                                                                *)
(***************************************************************************)
MaxFunds == 2         \* funds in the list the user starts with
MaxRecievers == 2     \* receivers of one try_transaction

FundValues == {20, 50, ValueMod - 56}
RequestValues == {30, 50, ValueMod - 106}

RECURSIVE SeqsUpTo(_, _)
SeqsUpTo(S, n) ==
    IF n = 0 THEN {<<>>}
    ELSE LET shorter == SeqsUpTo(S, n - 1) IN
         shorter \cup {Append(l, x) : l \in shorter, x \in S}

\* Funds as the tests push them: outputs of a transaction with a made-up id
FundPool == {[txid |-> EmptyHash, vout |-> v, value |-> x] : v \in 0..1, x \in FundValues}
FundLists == SeqsUpTo(FundPool, MaxFunds)
RecieverLists == SeqsUpTo(Keys \X RequestValues, MaxRecievers) \ {<<>>}

UserInit ==
    /\ blocks = <<>>
    /\ utxo = EmptyMap
    /\ result = NoResult
    /\ call = NoCall
    /\ txids = <<>>
    /\ overflow_checks \in BOOLEAN
    /\ NoPrimeSearch
    /\ mempool = <<>>
    /\ user_funds \in FundLists
    /\ probe = NoProbe
    /\ admitted = {}

\* User::try_transaction(recievers)
UserTryTransaction ==
    /\ result.kind = "None"
    /\ \E recievers \in RecieverLists :
          LET r == TryTransaction(NodeKey, user_funds, recievers, overflow_checks) IN
          /\ result' = Result(IF r.panicked THEN "Panic"
                              ELSE IF r.ok THEN "Ok" ELSE "InsufficientFunds")
          /\ probe' = [op |-> "try_transaction", funds |-> user_funds,
                       recievers |-> recievers, tx |-> r.tx]
    /\ call' = [NoCall EXCEPT !.op = "try_transaction"]
    /\ UNCHANGED <<chainVars, rsaVars, mempool, user_funds, admitted>>

\* Transactions update_funds is called with: the user's own payments, and
\* coinbases with one output or two
UpdateTxs(fs) ==
    {r.tx : r \in {x \in {TryTransaction(NodeKey, fs, recievers, FALSE) :
                              recievers \in RecieverLists} : x.ok}}
    \cup StandardCoinbases
    \cup {[inputs |-> <<>>,
           outputs |-> <<TxOutput(20, NodeKey), TxOutput(MINING_REWARD - 20, NodeKey)>>]}

\* User::update_funds(tx) on a fund list as first drawn
UserUpdateFunds ==
    /\ result.kind = "None"
    /\ user_funds \in FundLists
    /\ \E tx \in UpdateTxs(user_funds), salt \in Salts :
          LET r == UpdateFunds(user_funds, NodeKey, tx, salt, overflow_checks) IN
          /\ user_funds' = IF r.panicked THEN user_funds ELSE r.funds
          /\ result' = Result(IF r.panicked THEN "Panic" ELSE "Ok")
          /\ probe' = [op |-> "update_funds", funds |-> user_funds, tx |-> tx,
                       salt |-> salt]
    /\ call' = [NoCall EXCEPT !.op = "update_funds"]
    /\ UNCHANGED <<chainVars, rsaVars, mempool, admitted>>

UserNext ==
    \/ UserTryTransaction
    \/ UserUpdateFunds
    \/ Return

UserSpec == UserInit /\ [][UserNext]_vars

(***************************************************************************)
(* Merkle proofs (src/src/blockchain/merkle.rs): trees built from bounded  *)
(* transaction lists, and the trees of the blocks a node has accepted.     *)
(***************************************************************************)
MaxLeaves == 5        \* transactions in one tree

MerkleFund == [txid |-> EmptyHash, vout |-> 0, value |-> MINING_REWARD]
MerklePool ==
    {GetCoinbase(NodeKey, MINING_REWARD)}
    \cup {TryTransaction(NodeKey, <<MerkleFund>>, <<<<k, MINING_REWARD>>>>, FALSE).tx :
             k \in Keys}
TxLists == SeqsUpTo(MerklePool, MaxLeaves) \ {<<>>}

\* MerkleTree::new(transactions), then get_branch_hashes(T) for a T of the
\* list and verify_transaction_branch(T, proof, root_hash).  The three are
\* functions of the list alone, so they are applied once, before the node
\* has accepted anything.
MerkleProof ==
    /\ result.kind = "None"
    /\ Len(blocks) = 1
    /\ mempool = <<>>
    /\ \E txs \in TxLists :
       \E salts \in SaltChoices(txs), i \in 1..Len(txs), vsalt \in Salts :
          LET tree == MerkleTreeNew(txs, salts)
              b == GetBranchHashes(tree, txs[i])
          IN  probe' = [op |-> "merkle_proof", tree |-> tree, transaction |-> txs[i],
                        leaf |-> TxHashes(txs, salts)[i], some |-> b.some,
                        branch |-> b.branch,
                        verified |-> VerifyTransactionBranch(txs[i], b.branch,
                                                             tree.root, vsalt)]
    /\ result' = Result("Ok")
    /\ call' = [NoCall EXCEPT !.op = "merkle_proof"]
    /\ UNCHANGED <<chainVars, rsaVars, mempool, user_funds, admitted>>

\* Node::get_verifiyng_transaction_branch(tx, block_idx), the proof then
\* checked against the Merkle root of that block
NodeGetVerifyingBranch ==
    /\ result.kind = "None"
    /\ \E block_idx \in 0..Len(blocks) :
       \E tx \in MerklePool \cup UNION {{blocks[b].merkle_tree.transactions[j] :
                                           j \in 1..Len(blocks[b].merkle_tree.transactions)} :
                                         b \in 1..Len(blocks)},
          vsalt \in Salts :
          LET inrange == block_idx < Len(blocks)
              tree == IF inrange THEN blocks[block_idx + 1].merkle_tree
                      ELSE [root |-> EmptyHash, transactions |-> <<>>]
              b == GetBranchHashes(tree, tx)
          IN  /\ probe' = [op |-> "get_verifying_branch", block_idx |-> block_idx,
                           transaction |-> tx, some |-> inrange /\ b.some,
                           branch |-> b.branch,
                           verified |-> VerifyTransactionBranch(tx, b.branch,
                                                                tree.root, vsalt)]
              /\ result' = Result(IF inrange /\ b.some THEN "Ok" ELSE "Err")
    /\ call' = [NoCall EXCEPT !.op = "get_verifying_branch"]
    /\ UNCHANGED <<chainVars, rsaVars, mempool, user_funds, admitted>>

MerkleNext ==
    \/ MerkleProof
    \/ NodeAcceptBlock
    \/ NodeGetVerifyingBranch
    \/ Return

MerkleSpec == NodeInit /\ [][MerkleNext]_vars

(***************************************************************************)
(* The Merkle tree as stored (src/src/blockchain/merkle.rs): every node    *)
(* keeps its own hash next to its children, so a stored hash can be        *)
(* overwritten without its children or its parent changing.  An absent     *)
(* child (None) is <<>>, a present one (Some(n)) is <<n>>.                 *)
(***************************************************************************)
MaxTamperLeaves == 10    \* transactions in a tree one of whose hashes is overwritten

RECURSIVE ParseNodes(_)
ParseNodes(hashes) ==
    IF Len(hashes) = 1 THEN [hash |-> hashes[1], left |-> <<>>, right |-> <<>>]
    ELSE LET hs == IF Len(hashes) % 2 = 1
                   THEN Append(hashes, hashes[Len(hashes)]) ELSE hashes
             mid == Len(hs) \div 2
             left == ParseNodes(SubSeq(hs, 1, mid))
             right == ParseNodes(SubSeq(hs, mid + 1, Len(hs)))
         IN  [hash |-> <<"node", left.hash, right.hash>>,
              left |-> <<left>>, right |-> <<right>>]

\* MerkleTree::new(transactions) with the nodes it stores
MerkleNodesNew(txs, salts) ==
    LET hashes == TxHashes(txs, salts) IN
    [root |-> ParseNodes(IF Len(hashes) = 1 THEN <<hashes[1], hashes[1]>> ELSE hashes),
     transactions |-> txs]

\* MerkleNode::is_leaf_node on a stored node
IsLeaf(node) == node.left = <<>> \/ node.right = <<>>

\* MerkleTree::recursive_find_transaction on stored nodes
RECURSIVE FindTransaction(_, _, _)
FindTransaction(node, tx_cnt, tx_idx) ==
    IF IsLeaf(node) THEN <<>>
    ELSE LET cnt == (tx_cnt + 1) \div 2 IN
         IF tx_idx >= cnt
         THEN <<<<node.left[1].hash, 0>>>>
              \o FindTransaction(node.right[1], cnt, tx_idx % cnt)
         ELSE <<<<node.right[1].hash, 1>>>>
              \o FindTransaction(node.left[1], cnt, tx_idx)

\* MerkleTree::get_branch_hashes on stored nodes
BranchOfNodes(tree, transaction) ==
    LET at == {i \in 1..Len(tree.transactions) : tree.transactions[i] = transaction} IN
    IF at = {} THEN [some |-> FALSE, branch |-> <<>>]
    ELSE LET transaction_idx == (CHOOSE i \in at : \A j \in at : i <= j) - 1 IN
         [some |-> TRUE,
          branch |-> Reverse(FindTransaction(tree.root, Len(tree.transactions),
                                             transaction_idx))]

\* The paths (0 = left, 1 = right, from the root) to the nodes with children
RECURSIVE InteriorPaths(_)
InteriorPaths(node) ==
    IF IsLeaf(node) THEN {}
    ELSE {<<>>} \cup {<<0>> \o p : p \in InteriorPaths(node.left[1])}
                \cup {<<1>> \o p : p \in InteriorPaths(node.right[1])}

\* node.<path>.hash = h, as test_with_modified_tree does for the path <<0>>
RECURSIVE OverwriteHash(_, _, _)
OverwriteHash(node, path, h) ==
    IF path = <<>> THEN [node EXCEPT !.hash = h]
    ELSE IF path[1] = 0
    THEN [node EXCEPT !.left = <<OverwriteHash(node.left[1], Tail(path), h)>>]
    ELSE [node EXCEPT !.right = <<OverwriteHash(node.right[1], Tail(path), h)>>]

\* Transaction lists as a block holds them: a coinbase or not, then
\* payments that all differ
TamperPayment(v) ==
    TryTransaction(NodeKey, <<MerkleFund>>, <<<<Other(NodeKey), v>>>>, FALSE).tx
TamperLists ==
    {[i \in 1..n |-> TamperPayment(i)] : n \in 1..MaxTamperLeaves}
    \cup {[i \in 1..n |-> IF i = 1 THEN GetCoinbase(NodeKey, MINING_REWARD)
                                   ELSE TamperPayment(i)] : n \in 1..MaxTamperLeaves}

\* MerkleTree::new(transactions), the stored hash of an inner node other
\* than the root overwritten, then get_branch_hashes(T) and
\* verify_transaction_branch(T, proof, root_hash)
MerkleTamperProof ==
    /\ result.kind = "None"
    /\ \E txs \in TamperLists :
       \E salts \in SaltChoices(txs), i \in 1..Len(txs), vsalt \in Salts :
       \E path \in InteriorPaths(MerkleNodesNew(txs, salts).root) \ {<<>>} :
          LET tree == MerkleNodesNew(txs, salts)
              modified == [tree EXCEPT !.root = OverwriteHash(tree.root, path, EmptyHash)]
              b == BranchOfNodes(modified, txs[i])
          IN  probe' = [op |-> "merkle_tamper", cnt |-> Len(txs), idx |-> i - 1,
                        transaction |-> txs[i], path |-> path,
                        overwritten |-> EmptyHash, root_hash |-> modified.root.hash,
                        branch |-> b.branch,
                        verified |-> VerifyTransactionBranch(txs[i], b.branch,
                                                             modified.root.hash, vsalt)]
    /\ result' = Result("Ok")
    /\ call' = [NoCall EXCEPT !.op = "merkle_tamper"]
    /\ UNCHANGED <<chainVars, rsaVars, mempool, user_funds, admitted>>

MerkleTamperNext ==
    \/ MerkleTamperProof
    \/ Return

MerkleTamperSpec == Init /\ [][MerkleTamperNext]_vars

(***************************************************************************)
(* generate_primes (src/src/rsa/prime_gen.rs): `cores` threads search for  *)
(* primes and compete on the counter found_total; the calling thread       *)
(* receives n primes from the channel and joins the threads.  The state    *)
(* starts when the threads are spawned and the caller has dropped its own  *)
(* sender.  What the arithmetic of a candidate gives is a free choice      *)
(* here; the points where the counter is read are those of the code.       *)
(* The counter is read with Ordering::Relaxed: a load may return any value *)
(* the counter has had since the thread last read or wrote it.             *)
(***************************************************************************)
MaxCores == 2         \* threads spawned (available_parallelism)
MaxN == 2             \* primes asked for (generate_keys asks for 2)
MillerRounds == 2     \* rounds of one check_prime call
MaxR == 2             \* r of a candidate: num - 1 = d * 2^r with d odd

\* Mutants of the two comparisons of the counter
ReachedNever(v, n) == FALSE
MaySendAlways(old, n) == TRUE

\* found_total.load(Ordering::Relaxed) >= n
Reached(v, n) == v >= n

\* found_total.fetch_add(1, Ordering::Relaxed) < n
MaySend(old, n) == old < n

Worker0 == [pc |-> "loop", seen |-> 0, rounds |-> 0, r |-> 0, squares |-> 0, found |-> 0]

PrimeInit ==
    /\ blocks = <<>>
    /\ utxo = EmptyMap
    /\ result = NoResult
    /\ call = NoCall
    /\ txids = <<>>
    /\ overflow_checks = FALSE
    /\ mempool = <<>>
    /\ user_funds = <<>>
    /\ probe = NoProbe
    /\ admitted = {}
    /\ found_total = 0
    /\ channel = [queue |-> <<>>, sent |-> <<>>]
    /\ primes = <<>>
    /\ \E cores \in 1..MaxCores : workers = [w \in 1..cores |-> Worker0]
    /\ \E n \in 0..MaxN : coordinator = [pc |-> "recv", n |-> n, received |-> 0]

\* What generate_primes does not touch
restVars == <<blocks, utxo, result, call, txids, overflow_checks, nodeVars>>

\* The values a relaxed load of the counter by thread w can return
Loads(w) == workers[w].seen .. found_total

\* One round of check_prime is over: the next round, or `true` after the last
AfterRound(wk) ==
    IF wk.rounds = 1 THEN [wk EXCEPT !.pc = "found", !.rounds = 0, !.squares = 0]
    ELSE [wk EXCEPT !.pc = "round", !.rounds = wk.rounds - 1, !.squares = 0]

\* The thread is at pc and reads v from the counter
AtLoad(w, pc, v) ==
    /\ w \in DOMAIN workers
    /\ workers[w].pc = pc
    /\ v \in Loads(w)

\* prime_gen.rs:100-104, the load at the head of the thread's loop
WorkerLoopReading(w, v) ==
    /\ AtLoad(w, "loop", v)
    /\ workers' = [workers EXCEPT ![w].seen = v,
                       ![w].pc = IF Reached(v, coordinator.n) THEN "done" ELSE "search"]
    /\ UNCHANGED <<found_total, channel, primes, coordinator, restVars>>

\* prime_gen.rs:70-72, the load at each candidate step of thread_generate_prime
SearchReading(w, v) ==
    /\ AtLoad(w, "search", v)
    /\ workers' = [workers EXCEPT ![w].seen = v,
                       ![w].pc = IF Reached(v, coordinator.n) THEN "loop" ELSE "candidate"]
    /\ UNCHANGED <<found_total, channel, primes, coordinator, restVars>>

\* prime_gen.rs:74-82 and 32-38: the next candidate and its trial division
Candidate(w) ==
    /\ w \in DOMAIN workers
    /\ workers[w].pc = "candidate"
    /\ \/ workers' = [workers EXCEPT ![w].pc = "search"]
       \/ \E r \in 1..MaxR :
             workers' = [workers EXCEPT ![w].pc = "round", ![w].r = r,
                                        ![w].rounds = MillerRounds, ![w].squares = 0]
    /\ UNCHANGED <<found_total, channel, primes, coordinator, restVars>>

\* prime_gen.rs:40-47, the load at the head of a round and the test of a^d
RoundReading(w, v) ==
    /\ AtLoad(w, "round", v)
    /\ \E passes \in BOOLEAN :
          LET wk == [workers[w] EXCEPT !.seen = v] IN
          workers' = [workers EXCEPT ![w] =
              IF Reached(v, coordinator.n) \/ ~passes
              THEN [wk EXCEPT !.pc = "search", !.rounds = 0, !.r = 0]
              ELSE IF wk.r = 1 THEN AfterRound(wk)
              ELSE [wk EXCEPT !.pc = "square", !.squares = wk.r - 1]]
    /\ UNCHANGED <<found_total, channel, primes, coordinator, restVars>>

\* prime_gen.rs:48-56, the load before each squaring and the test of x * x
SquareReading(w, v) ==
    /\ AtLoad(w, "square", v)
    /\ \E passes \in BOOLEAN :
          LET wk == [workers[w] EXCEPT !.seen = v] IN
          workers' = [workers EXCEPT ![w] =
              IF Reached(v, coordinator.n) \/ ~passes
              THEN [wk EXCEPT !.pc = "search", !.rounds = 0, !.r = 0, !.squares = 0]
              ELSE IF wk.squares = 1 THEN AfterRound(wk)
              ELSE [wk EXCEPT !.squares = wk.squares - 1]]
    /\ UNCHANGED <<found_total, channel, primes, coordinator, restVars>>

\* prime_gen.rs:104-110, the fetch_add after a prime was found
FetchAdd(w) ==
    /\ w \in DOMAIN workers
    /\ workers[w].pc = "found"
    /\ found_total' = found_total + 1
    /\ workers' = [workers EXCEPT ![w].seen = found_total + 1, ![w].r = 0,
                       ![w].pc = IF MaySend(found_total, coordinator.n)
                                 THEN "send" ELSE "done"]
    /\ UNCHANGED <<channel, primes, coordinator, restVars>>

\* prime_gen.rs:107, tx.send(prime); the prime is named by who found it
Send(w) ==
    /\ w \in DOMAIN workers
    /\ workers[w].pc = "send"
    /\ channel' = [queue |-> Append(channel.queue, <<w, workers[w].found + 1>>),
                   sent |-> Append(channel.sent, <<w, workers[w].found + 1>>)]
    /\ workers' = [workers EXCEPT ![w].pc = "loop", ![w].found = @ + 1]
    /\ UNCHANGED <<found_total, primes, coordinator, restVars>>

\* The loads of the counter
WorkerLoop(w) == \E v \in 0..found_total : WorkerLoopReading(w, v)
Search(w) == \E v \in 0..found_total : SearchReading(w, v)
Round(w) == \E v \in 0..found_total : RoundReading(w, v)
Square(w) == \E v \in 0..found_total : SquareReading(w, v)

\* A load that returns the value the counter has now
WorkerReadLatest(w) ==
    \/ WorkerLoopReading(w, found_total)
    \/ SearchReading(w, found_total)
    \/ RoundReading(w, found_total)
    \/ SquareReading(w, found_total)

WorkerStep(w) ==
    \/ WorkerLoop(w)
    \/ Search(w)
    \/ Candidate(w)
    \/ Round(w)
    \/ Square(w)
    \/ FetchAdd(w)
    \/ Send(w)

AllDone == \A w \in DOMAIN workers : workers[w].pc = "done"

\* prime_gen.rs:119-123: rx.recv() gives the oldest prime, or Err once the
\* queue is empty and every sender is dropped
Recv ==
    /\ coordinator.pc = "recv"
    /\ coordinator.received < coordinator.n
    /\ \/ /\ channel.queue # <<>>
          /\ primes' = Append(primes, Head(channel.queue))
          /\ channel' = [channel EXCEPT !.queue = Tail(@)]
       \/ /\ channel.queue = <<>>
          /\ AllDone
          /\ UNCHANGED <<primes, channel>>
    /\ coordinator' = [coordinator EXCEPT !.received = @ + 1]
    /\ UNCHANGED <<found_total, workers, restVars>>

\* prime_gen.rs:125-129: the joins, then the vector is returned
Join ==
    /\ coordinator.pc = "recv"
    /\ coordinator.received = coordinator.n
    /\ AllDone
    /\ coordinator' = [coordinator EXCEPT !.pc = "returned"]
    /\ UNCHANGED <<found_total, channel, primes, workers, restVars>>

PrimeNext ==
    \/ \E w \in 1..MaxCores : WorkerLoop(w)
    \/ \E w \in 1..MaxCores : Search(w)
    \/ \E w \in 1..MaxCores : Candidate(w)
    \/ \E w \in 1..MaxCores : Round(w)
    \/ \E w \in 1..MaxCores : Square(w)
    \/ \E w \in 1..MaxCores : FetchAdd(w)
    \/ \E w \in 1..MaxCores : Send(w)
    \/ Recv
    \/ Join

PrimeSpec == PrimeInit /\ [][PrimeNext]_vars

\* Every thread that can take a step eventually takes one, a store to the
\* counter becomes visible to every thread in finite time, and the calling
\* thread runs
PrimeFairness ==
    /\ \A w \in 1..MaxCores : WF_vars(WorkerStep(w))
    /\ \A w \in 1..MaxCores : SF_vars(WorkerReadLatest(w))
    /\ WF_vars(Recv)
    /\ WF_vars(Join)

PrimeLiveSpec == PrimeSpec /\ PrimeFairness

(***************************************************************************)
(* BigInt<T> and BigIntMod<T> (src/src/math/big_int.rs).  A BigInt is T    *)
(* limbs of 64 bits; here it is Limbs limbs of LimbBits bits, held as the  *)
(* number below Wrap its limbs spell.  Every operation wraps at Wrap.      *)
(***************************************************************************)
LimbBits == 2         \* bits of one limb (64 in the program)
Limbs == 8            \* T, the limbs of a BigInt
MaxInteger == 1023    \* largest integer handed to barret_reduce
MaxModulus == 31      \* largest modulus: its reciprocal fits the width

LimbBase == 2 ^ LimbBits
Wrap == LimbBase ^ Limbs

\* BigInt::log2: the number of bits of x (0 for 0)
RECURSIVE BigLog2(_)
BigLog2(x) == IF x = 0 THEN 0 ELSE 1 + BigLog2(x \div 2)

BigIsNegative(x) == x >= Wrap \div 2
BigAdd(x, y) == (x + y) % Wrap
BigSub(x, y) == (x - y + Wrap) % Wrap
BigNeg(x) == (Wrap - x) % Wrap

\* Mul for BigInt: the product, cut to the width
BigMul(x, y) == (x * y) % Wrap

\* Shr and Shl by a whole number of limbs, for a value that is not negative
BigShr(x, limbs) == IF limbs >= Limbs THEN 0 ELSE x \div (LimbBase ^ limbs)
BigShl(x, limbs) == IF limbs >= Limbs THEN 0 ELSE (x * (LimbBase ^ limbs)) % Wrap

\* Div for BigInt, for a divisor below half the width
BigDiv(x, y) == x \div y

\* BigInt::mod_parts(k): the k lowest limbs
ModParts(x, k) == IF k >= Limbs THEN x ELSE x % (LimbBase ^ k)

\* k of calculate_mu and barret_reduce
BarretK(modulo) == BigLog2(modulo) \div LimbBits + 1

\* BigIntMod::calculate_mu(modulo)
CalculateMu(modulo) == BigDiv(BigShl(1, 2 * BarretK(modulo)), modulo)

\* The correction loop of barret_reduce: at most m subtractions
RECURSIVE BarretCorrect(_, _, _)
BarretCorrect(r, modulo, m) ==
    IF r >= modulo /\ m # 0 THEN BarretCorrect(BigSub(r, modulo), modulo, m - 1) ELSE r

\* BigIntMod::barret_reduce on (integer, modulo, Some(mu)): whether it
\* panics, and the integer it leaves otherwise
BarretReduce(integer, modulo, mu) ==
    LET k == BarretK(modulo)
        q1 == BigShr(integer, k - 1)
        q2 == BigMul(q1, mu)
        q3 == BigShr(q2, k + 1)
        r1 == ModParts(integer, k + 1)
        r2 == ModParts(BigMul(q3, modulo), k + 1)
        d == BigSub(r1, r2)
        r0 == IF BigIsNegative(d) THEN BigAdd(d, BigShl(1, k + 1)) ELSE d
        r == BarretCorrect(r0, modulo, 2)
    IN  [panicked |-> r >= modulo, integer |-> r]

\* Mul for BigIntMod: the product of the integers, then barret_reduce
BigIntModMul(x, y, modulo, mu) == BarretReduce(BigMul(x, y), modulo, mu)

BarretInit ==
    /\ blocks = <<>>
    /\ utxo = EmptyMap
    /\ result = NoResult
    /\ call = NoCall
    /\ txids = <<>>
    /\ overflow_checks = FALSE
    /\ mempool = <<>>
    /\ user_funds = <<>>
    /\ admitted = {}
    /\ NoPrimeSearch
    /\ \/ \E x \in 0..MaxInteger, m \in 1..MaxModulus :
             probe = [op |-> "integer", integer |-> x, modulo |-> m]
       \/ \E m \in 1..MaxModulus : \E x \in 0..(m - 1), y \in {0, 1, m \div 2, m - 1} :
             probe = [op |-> "factors", x |-> x, y |-> y, modulo |-> m]

\* BigIntMod::new_reduce(integer, modulo, calculate_mu(modulo))
NewReduce ==
    /\ result.kind = "None"
    /\ probe.op = "integer"
    /\ LET mu == CalculateMu(probe.modulo)
           r == BarretReduce(probe.integer, probe.modulo, mu)
       IN  /\ probe' = [op |-> "barret_reduce", integer |-> probe.integer,
                        modulo |-> probe.modulo, mu |-> mu, reduced |-> r.integer]
           /\ result' = Result(IF r.panicked THEN "Panic" ELSE "Ok")
    /\ call' = [NoCall EXCEPT !.op = "barret_reduce"]
    /\ UNCHANGED <<chainVars, rsaVars, mempool, user_funds, admitted>>

\* x * y for two BigIntMod of one modulus, both below it
ModMul ==
    /\ result.kind = "None"
    /\ probe.op = "factors"
    /\ LET mu == CalculateMu(probe.modulo)
           r == BigIntModMul(probe.x, probe.y, probe.modulo, mu)
       IN  /\ probe' = [op |-> "barret_reduce", integer |-> probe.x * probe.y,
                        modulo |-> probe.modulo, mu |-> mu, reduced |-> r.integer]
           /\ result' = Result(IF r.panicked THEN "Panic" ELSE "Ok")
    /\ call' = [NoCall EXCEPT !.op = "barret_reduce"]
    /\ UNCHANGED <<chainVars, rsaVars, mempool, user_funds, admitted>>

BarretNext ==
    \/ NewReduce
    \/ ModMul
    \/ Return

BarretSpec == BarretInit /\ [][BarretNext]_vars

(***************************************************************************)
(* check_prime (src/src/rsa/prime_gen.rs) on small candidates, with the    *)
(* arithmetic of BigIntMod.  The counter stays below n during the call, so *)
(* none of its loads ends the call.                                        *)
(***************************************************************************)
MaxBase == 40         \* largest value BigInt::rand gives for a base

\* BigIntMod::pow(exponent): square and multiply, from the lowest bit
RECURSIVE ModPow(_, _, _, _, _)
ModPow(acc, base, exp, modulo, mu) ==
    IF exp = 0 THEN acc
    ELSE ModPow(IF exp % 2 = 1 THEN BigIntModMul(acc, base, modulo, mu).integer ELSE acc,
                BigIntModMul(base, base, modulo, mu).integer,
                exp \div 2, modulo, mu)

\* prime_gen.rs:32-37: num - 1 = d * 2^r with d odd
RECURSIVE OddPart(_)
OddPart(x) == IF x % 2 = 1 THEN x ELSE OddPart(x \div 2)
RECURSIVE TwoPower(_)
TwoPower(x) == IF x % 2 = 1 THEN 0 ELSE 1 + TwoPower(x \div 2)

\* prime_gen.rs:48-56: `left` more squarings, each of which must give num - 1
RECURSIVE Squarings(_, _, _, _)
Squarings(x, left, num, mu) ==
    IF left = 0 THEN TRUE
    ELSE LET xx == BigIntModMul(x, x, num, mu).integer IN
         IF xx # num - 1 THEN FALSE ELSE Squarings(xx, left - 1, num, mu)

\* prime_gen.rs:43-56: one round with the base BigInt::rand gave
MillerRound(num, raw, d, r, mu) ==
    LET a == BarretReduce(raw, num, mu).integer
        x == ModPow(1, a, d, num, mu)
    IN  IF ~(x = 1 \/ x = num - 1) THEN FALSE
        ELSE Squarings(x, r - 1, num, mu)

\* check_prime(num, round, ..): one base per round
CheckPrime(num, bases) ==
    LET d == OddPart(num - 1)
        r == TwoPower(num - 1)
        mu == CalculateMu(num)
    IN  \A i \in 1..Len(bases) : MillerRound(num, bases[i], d, r, mu)

IsPrime(x) == x > 1 /\ \A y \in 2..(x - 1) : x % y # 0

\* The candidates thread_generate_prime steps through are odd
Candidates == {x \in 3..MaxModulus : x % 2 = 1}

CheckPrimeInit ==
    /\ blocks = <<>>
    /\ utxo = EmptyMap
    /\ result = NoResult
    /\ call = NoCall
    /\ txids = <<>>
    /\ overflow_checks = FALSE
    /\ mempool = <<>>
    /\ user_funds = <<>>
    /\ admitted = {}
    /\ NoPrimeSearch
    /\ \E num \in Candidates, bases \in [1..MillerRounds -> 0..MaxBase] :
          probe = [op |-> "candidate", num |-> num, bases |-> bases]

\* check_prime(num, MILLER_ROUND, found_total, n)
CheckPrimeCall ==
    /\ result.kind = "None"
    /\ probe.op = "candidate"
    /\ probe' = [op |-> "check_prime", num |-> probe.num, bases |-> probe.bases,
                 returned |-> CheckPrime(probe.num, probe.bases)]
    /\ result' = Result("Ok")
    /\ call' = [NoCall EXCEPT !.op = "check_prime"]
    /\ UNCHANGED <<chainVars, rsaVars, mempool, user_funds, admitted>>

CheckPrimeNext ==
    \/ CheckPrimeCall
    \/ Return

CheckPrimeSpec == CheckPrimeInit /\ [][CheckPrimeNext]_vars

(***************************************************************************)
(* Properties.  The committed transactions are those of `blocks`; txids    *)
(* holds the id each was inserted under.                                   *)
(***************************************************************************)
BlockErrors ==
    {"InvalidPreviousBlockHash", "InvalidHash", "InvalidMerkleRoot", "InvalidCoinbase",
     "InvalidTransactions"}

Txs(b) == blocks[b].merkle_tree.transactions
TxSlots == UNION {{<<b, i>> : i \in 1..Len(Txs(b))} : b \in 1..Len(blocks)}
InputSlots ==
    UNION {{<<s[1], s[2], j>> : j \in 1..Len(Txs(s[1])[s[2]].inputs)} : s \in TxSlots}
InputAt(s) == Txs(s[1])[s[2]].inputs[s[3]]
Consumed(id, vout) ==
    \E s \in InputSlots : InputAt(s).txid = id /\ InputAt(s).vout = vout

\* The value of the output an input refers to, read off the id it names
InputValue(input) == input.txid[4][input.vout + 1][1]
OutputTotal(tx) == SumSeq([j \in 1..Len(tx.outputs) |-> tx.outputs[j].value])
InputTotal(tx) == SumSeq([j \in 1..Len(tx.inputs) |-> InputValue(tx.inputs[j])])

\* add_block returned Err(e), to its caller or to the unwrap of Blockchain::new
ReturnedError(r) ==
    \/ r.kind \in BlockErrors
    \/ r.kind = "Panic" /\ r.errors # <<>> /\ r.errors[1] \in BlockErrors

\* C1: across the committed blocks, no output (txid, vout) is named by two
\* inputs, be they of one transaction, of one block or of different blocks.
C1_NoOutputConsumedTwice ==
    \A s, t \in InputSlots :
        s # t => <<InputAt(s).txid, InputAt(s).vout>> # <<InputAt(t).txid, InputAt(t).vout>>

\* C2: a call of add_block that returns a BlockError leaves the block list
\* and the UTXO map as they were before the call.
C2_ErrorLeavesStateUntouched ==
    [][(call'.op \in {"add_block", "new"} /\ ReturnedError(result'))
          => (blocks' = blocks /\ utxo' = utxo)]_vars

C2_Witness ==
    /\ call.op = "add_block"
    /\ result.kind = "InvalidTransactions"
    /\ utxo # EmptyMap

\* C3: the commit loop of add_block never panics on the lookup of an
\* input's UTXO entry, so no block is ever applied to the UTXO map in part.
C3_CommitNeverPanics ==
    ~(call.op = "add_block" /\ result.kind = "Panic" /\ result.errors = <<"unwrap">>)

\* C4: for every committed non-coinbase transaction, the values of the
\* outputs its inputs refer to add up to the values of its own outputs.
C4_Conservation ==
    \A s \in TxSlots :
        LET tx == Txs(s[1])[s[2]] IN
        ~IsCoinbase(tx) => InputTotal(tx) = OutputTotal(tx)

\* C5: verify_new_transaction accepts a coinbase if and only if its outputs
\* add up to MINING_REWARD.
C5_CoinbaseIffReward ==
    (call.op = "verify_new_transaction" /\ call.is_coinbase)
        => (result.kind = "Ok" <=> call.out_total = MINING_REWARD)

C7_UtxoMatchesHistory ==
    result.kind # "Panic" =>
        \A s \in TxSlots :
            LET tx == Txs(s[1])[s[2]]
                id == txids[s[1]][s[2]]
                vouts == 0..(Len(tx.outputs) - 1)
            IN  /\ \A v \in vouts :
                      ~Consumed(id, v) =>
                          /\ id \in DOMAIN utxo
                          /\ v + 1 <= Len(utxo[id])
                          /\ ~utxo[id][v + 1].spent
                /\ (vouts # {} /\ \A v \in vouts : Consumed(id, v)) => id \notin DOMAIN utxo

\* C8: get_user_funds(pubkey) returns exactly the outputs of the UTXO map
\* that pay pubkey and are not marked spent.
C8_FundsAreUnspent ==
    result.kind # "Panic" =>
        \A k \in Keys :
            GetUserFunds(Chain, k) =
                {<<r[1], r[2], RefOut(utxo, r).value>> :
                    r \in {x \in Refs(utxo) : /\ RefOut(utxo, x).script_pubkey = k
                                              /\ ~RefOut(utxo, x).spent}}

\* C9: Blockchain::new with a coinbase paying 50 to K1 completes with one
\* block and one UTXO entry, and get_user_funds(K1) is the one triple
\* (id, 0, 50), id being the leaf of the genesis block's Merkle tree.
C9_GenesisCompletes ==
    (call.op = "new" /\ call.txs = <<GetCoinbase("K1", MINING_REWARD)>>) =>
        /\ result.kind = "Ok"
        /\ call.root_ok
        /\ Len(blocks) = 1
        /\ Cardinality(DOMAIN utxo) = 1
        /\ GetUserFunds(Chain, "K1") = {<<blocks[1].merkle_tree.root[2], 0, MINING_REWARD>>}

\* C10: every committed block but the first names the stored hash of the
\* block before it, verify_chain reports Ok, and add_block rejects a block
\* that names another hash with InvalidPreviousBlockHash.
C10_Linked ==
    /\ \A i \in 2..Len(blocks) : blocks[i].previous_block_hash = blocks[i - 1].hash
    /\ VerifyChain(Chain) = "Ok"
    /\ (call.op = "add_block" /\ ~call.linked) => result.kind = "InvalidPreviousBlockHash"

C10_Witness ==
    /\ call.op = "add_block"
    /\ ~call.linked
    /\ Len(blocks) = MaxBlocks - 1
    /\ result.kind = "InvalidPreviousBlockHash"

\* C11: the block Block::mine() hands back carries, as its stored hash, the
\* hash of its own header, and that hash is valid under the block's
\* difficulty; the same holds of every committed block.
C11_MinedHashValid ==
    /\ call.mined => call.hash_ok
    /\ \A b \in 1..Len(blocks) :
          /\ blocks[b].hash = BlockHash(blocks[b])
          /\ IsValid(blocks[b].hash, blocks[b].difficulty)

\* A block whose first nonce was not valid was mined and committed
C11_Witness ==
    /\ call.mined
    /\ result.kind = "Ok"
    /\ blocks # <<>>
    /\ blocks[Len(blocks)].nonce > 0
    /\ blocks[Len(blocks)].difficulty = DEFAULT_DIFFICULTY
    /\ ~IsValid(BlockHash([blocks[Len(blocks)] EXCEPT !.nonce = 0]), DEFAULT_DIFFICULTY)

\* C12: when the nonce of a committed block is changed in place, chain
\* verification reports InvalidHash.
C12_TamperedNonceDetected ==
    probe.op = "tamper_nonce" => result.kind = "InvalidHash"

\* The nonce of a block that is not the last one was changed
C12_Witness ==
    /\ probe.op = "tamper_nonce"
    /\ Len(blocks) >= 2
    /\ probe.block < Len(blocks)
    /\ result.kind = "InvalidHash"

\* The outputs the inputs of the pending transactions name
PendingRefs == UNION {{<<mempool[i].inputs[j].txid, mempool[i].inputs[j].vout>> :
                          j \in 1..Len(mempool[i].inputs)} : i \in 1..Len(mempool)}

\* C13: in every state of a node, every output an input of a pending
\* transaction names is in the node's UTXO view and marked spent there.
C13_PendingInputsMarkedSpent ==
    result.kind # "Panic" =>
        \A r \in PendingRefs : r \in Refs(utxo) /\ RefOut(utxo, r).spent

\* C14: while a transaction that add_transaction let in is pending,
\* add_transaction of another transaction that spends an output it spends
\* returns InsufficientFunds and leaves the mempool and the UTXO view as
\* they were.
C14_DoubleSpendRejected ==
    (call.op = "add_transaction" /\ call.contested) =>
        /\ result.kind = "InsufficientFunds"
        /\ mempool = probe.mempool
        /\ utxo = probe.utxo

\* C15: when accept_block returns an error, the mempool holds the
\* transactions it held before in the same order, the chain is as it was, and
\* every output a pending transaction consumes that was marked spent before
\* the call is marked spent again.
C15_FailedAcceptRestoresState ==
    (call.op = "accept_block" /\ ReturnedError(result)) =>
        /\ mempool = probe.mempool
        /\ blocks = probe.blocks
        /\ \A r \in PendingRefs \cap Refs(probe.utxo) :
              RefOut(probe.utxo, r).spent => r \in Refs(utxo) /\ RefOut(utxo, r).spent

\* C16: the block mine() returns holds a new coinbase paying the node's key
\* followed by the pending transactions in mempool order; when it returns
\* the mempool is empty, the chain is one block longer with that block last,
\* and every output the mined transactions consume is marked spent in the
\* UTXO or erased from it.
C16_MineCommitsMempool ==
    (call.op = "mine" /\ result.kind = "Ok") =>
        /\ probe.block.merkle_tree.transactions
              = <<GetCoinbase(NodeKey, MINING_REWARD)>> \o probe.mempool
        /\ mempool = <<>>
        /\ blocks = Append(probe.blocks, probe.block)
        /\ \A i \in 1..Len(probe.mempool) : \A r \in InputRefs(probe.mempool[i]) :
              r \notin Refs(utxo) \/ RefOut(utxo, r).spent

\* mine() returned with two pending transactions in its block
C16_Witness ==
    /\ call.op = "mine"
    /\ result.kind = "Ok"
    /\ Len(probe.mempool) = 2
    /\ mempool = <<>>
    /\ Len(blocks) = Len(probe.blocks) + 1

\* C17: a signed transaction that add_transaction would let in, with its
\* input list or its output list changed after signing, is rejected by
\* add_transaction with InvalidSignature, and the mempool and the UTXO view
\* stay as they were.
C17_TamperedRejected ==
    (/\ call.op = "add_transaction"
     /\ call.spendable
     /\ call.shape \in {"input_duplicated", "input_retargeted", "output_changed",
                        "output_marked_spent"}) =>
        /\ result.kind = "InvalidSignature"
        /\ mempool = probe.mempool
        /\ utxo = probe.utxo

\* The least number of leading funds whose values add up to at least `need`
\* (0 when all of them do not)
Covering(fs, need) ==
    LET ks == {k \in 1..Len(fs) : SumSeq([j \in 1..k |-> fs[j].value]) >= need} IN
    IF ks = {} THEN 0 ELSE CHOOSE k \in ks : \A l \in ks : k <= l

\* C18: try_transaction returns InsufficientFunds when the funds add up to
\* less than the receivers are to get; otherwise it returns a transaction
\* whose inputs are the funds in list order up to the first whose running
\* sum covers the request, with one output per receiver in order and a
\* change output to the user's key exactly when the change is positive, so
\* that inputs and outputs add up to the same; the fund list is not modified.
C18_TryTransaction ==
    call.op = "try_transaction" =>
        LET fs == probe.funds
            rs == probe.recievers
            need == SumSeq([j \in 1..Len(rs) |-> rs[j][2]])
            have == SumSeq([j \in 1..Len(fs) |-> fs[j].value])
            k == Covering(fs, need)
            taken == SumSeq([j \in 1..k |-> fs[j].value])
            paid == [j \in 1..Len(rs) |-> TxOutput(rs[j][2], rs[j][1])]
        IN  /\ user_funds = fs
            /\ have < need => result.kind = "InsufficientFunds"
            /\ have >= need =>
                  /\ result.kind = "Ok"
                  /\ [j \in 1..Len(probe.tx.inputs) |->
                         <<probe.tx.inputs[j].txid, probe.tx.inputs[j].vout>>]
                       = [j \in 1..k |-> <<fs[j].txid, fs[j].vout>>]
                  /\ probe.tx.outputs = IF taken > need
                                        THEN Append(paid, TxOutput(taken - need, NodeKey))
                                        ELSE paid
                  /\ OutputTotal(probe.tx) = taken

\* C19: update_funds(tx) adds one fund per output of tx that pays the user
\* (txid = tx.hash(), vout = the output's index, value = its value), then
\* removes the funds an input of tx consumes; get_funds() is then the former
\* total less the consumed funds plus what tx pays the user.
C19_UpdateFunds ==
    (call.op = "update_funds" /\ result.kind = "Ok") =>
        LET tx == probe.tx
            paying == SelectSeq([i \in 1..Len(tx.outputs) |->
                                   [txid |-> TxHash(tx, probe.salt), vout |-> i - 1,
                                    value |-> tx.outputs[i].value,
                                    mine |-> tx.outputs[i].script_pubkey = NodeKey]],
                                LAMBDA f : f.mine)
            added == [i \in 1..Len(paying) |->
                         [txid |-> paying[i].txid, vout |-> paying[i].vout,
                          value |-> paying[i].value]]
            consumed(f) == <<f.txid, f.vout>> \in InputRefs(tx)
            gone == SelectSeq(probe.funds, consumed)
        IN  /\ user_funds = SelectSeq(probe.funds \o added, LAMBDA f : ~consumed(f))
            /\ GetFunds(user_funds)
                  = GetFunds(probe.funds) - GetFunds(gone) + GetFunds(added)

\* C20: for every non-empty transaction list and every transaction T in it,
\* get_branch_hashes(T) returns a proof that verify_transaction_branch(T,
\* proof, root_hash) accepts; a tree of one transaction gives a proof of
\* length 1 and a root that differs from the leaf hash; the same holds for a
\* proof obtained through get_verifiyng_transaction_branch for a transaction
\* of an accepted block, checked against that block's Merkle root.
C20_ProofVerifies ==
    /\ call.op = "merkle_proof" =>
          /\ probe.some
          /\ probe.verified
          /\ Len(probe.tree.transactions) = 1 =>
                (Len(probe.branch) = 1 /\ probe.tree.root # probe.leaf)
    /\ (/\ call.op = "get_verifying_branch"
        /\ probe.block_idx < Len(blocks)
        /\ \E j \in 1..Len(blocks[probe.block_idx + 1].merkle_tree.transactions) :
              blocks[probe.block_idx + 1].merkle_tree.transactions[j] = probe.transaction)
       => (probe.some /\ probe.verified)

\* C21: when the stored hash of an inner node X other than the root is
\* overwritten and the root hash is left as it was, the proof generated for
\* a transaction verifies against the root exactly when X's stored hash is
\* not one of the sibling hashes of the proof; after overwriting the root's
\* left child in a tree of 10 transactions, 5..9 fail and 0..4 succeed.
C21_TamperedSubtree ==
    call.op = "merkle_tamper" =>
        /\ probe.verified
              <=> (\A j \in 1..Len(probe.branch) : probe.branch[j][1] # probe.overwritten)
        /\ (probe.cnt = 10 /\ probe.path = <<0>>) => (probe.verified <=> probe.idx < 5)

Min(a, b) == IF a < b THEN a ELSE b
Sending == {w \in DOMAIN workers : workers[w].pc = "send"}

\* C22: in every interleaving of the prime-search threads exactly n primes
\* are sent: each fetch_add that returned less than n is followed by one
\* send and no other send happens, no thread exits while fewer than n are
\* counted, and generate_primes(n) returns the n primes in the order they
\* were sent.
C22_ExactlyNPrimes ==
    coordinator.pc # "idle" =>
        /\ Len(channel.sent) + Cardinality(Sending) = Min(found_total, coordinator.n)
        /\ \A w \in DOMAIN workers : workers[w].pc = "done" => found_total >= coordinator.n
        /\ primes \o channel.queue = channel.sent
        /\ coordinator.pc = "returned" =>
              (Len(primes) = coordinator.n /\ primes = channel.sent)

\* generate_primes(2) has returned two primes, the first found by the
\* second thread
C22_Witness ==
    /\ coordinator.pc = "returned"
    /\ coordinator.n = 2
    /\ Len(primes) = 2
    /\ primes[1][1] = 2
    /\ primes[2][1] = 1
    /\ found_total > 2

C24_BarretReduces ==
    call.op = "barret_reduce" =>
        /\ result.kind = "Ok"
        /\ probe.mu = (LimbBase ^ (2 * BarretK(probe.modulo))) \div probe.modulo
        /\ 0 <= probe.reduced
        /\ probe.reduced < probe.modulo
        /\ probe.reduced % probe.modulo = probe.integer % probe.modulo

\* C25: check_prime returns true for every odd prime, whatever bases it
\* draws, for primes congruent to 1 modulo 4 as well as to 3 modulo 4.
C25_PrimeNeverRejected ==
    (call.op = "check_prime" /\ IsPrime(probe.num)) => probe.returned

\* The values of the outputs the UTXO map holds with spent = false, added up
RECURSIVE UnspentOfEntries(_, _)
UnspentOfEntries(u, ids) ==
    IF ids = {} THEN 0
    ELSE LET id == CHOOSE x \in ids : TRUE IN
         SumSeq([i \in 1..Len(u[id]) |-> IF u[id][i].spent THEN 0 ELSE u[id][i].value])
         + UnspentOfEntries(u, ids \ {id})

UnspentTotal(u) == UnspentOfEntries(u, DOMAIN u)

\* C26: after any sequence of successful add_block calls the values of the
\* unspent outputs of the UTXO map add up to MINING_REWARD times the number
\* of blocks of the chain.
C26_SupplyIsRewardPerBlock ==
    result.kind # "Panic" => UnspentTotal(utxo) = MINING_REWARD * Len(blocks)

\* C27: in every node state reached through add_transaction,
\* remove_transaction, accept_block and mine, the block mine() builds from
\* the mempool passes add_block, so the unwrap inside mine() does not panic.
C27_MineNeverPanics ==
    call.op = "mine" => result.kind # "Panic"

\* The UTXO map the commit loops of add_block make of the first n blocks,
\* without the markings add_transaction and remove_transaction put on it
RECURSIVE CommittedUtxo(_, _, _)
CommittedUtxo(bks, ids, n) ==
    IF n = 0 THEN EmptyMap
    ELSE CommitTransactions(CommittedUtxo(bks, ids, n - 1),
                            bks[n].merkle_tree.transactions, ids[n], 1).utxo

\* add_block accepts the block of the call against the chain as committed
\* before the call
AcceptableOnChain ==
    LET u == CommittedUtxo(probe.blocks, txids, Len(probe.blocks)) IN
    /\ call.linked
    /\ call.hash_ok
    /\ call.root_ok
    /\ call.coinbases = 1
    /\ \A i \in 1..Len(call.txs) : VerifyNewTransaction(u, call.txs[i], overflow_checks) = "Ok"
    /\ ~CommitTransactions(u, call.txs, TxHashes(call.txs, FirstSalts(call.txs)), 1).panicked

\* C28: accept_block succeeds for every block that add_block accepts against
\* the committed chain state, whatever transactions are pending.
C28_PendingNeverBlocksValidBlock ==
    (call.op = "accept_block" /\ AcceptableOnChain) => result.kind = "Ok"

\* C29: once a non-coinbase transaction is in a committed block,
\* is_transaction_confirmed returns true for it in every later state, also
\* after later calls spend its outputs.
C29_ConfirmedForever ==
    call.op = "is_transaction_confirmed" => probe.returned

\* C30: every block add_block has committed to the chain has difficulty
\* DEFAULT_DIFFICULTY; a block that carries a lower difficulty is not
\* admitted.
C30_DifficultyIsDefault ==
    \A i \in 1..Len(blocks) : blocks[i].difficulty = DEFAULT_DIFFICULTY

====
